---------------------------- MODULE Spec2Model ----------------------------
(***************************************************************************)
(* The two block-cipher engines (DES in src/symmetric/des.js, AES-128 in   *)
(* src/unnamed/part_001) and the columnar transposition cipher, as a state *)
(* machine of calls made by a caller.                                      *)
(*                                                                         *)
(* Representation.  A JavaScript string is a sequence of UTF-16 code       *)
(* units (naturals): "HELLO" is <<72, 69, 76, 76, 79>>.  A binary string   *)
(* of '0'/'1' characters is a sequence of the bits 0 and 1.  A byte array  *)
(* is a sequence of numbers.  JavaScript arrays are 0-based, sequences     *)
(* 1-based: table[i] of the source is table[i + 1] here.                   *)
(***************************************************************************)
EXTENDS Integers, Sequences, FiniteSets, TLC

(***************************************************************************)
(* DES tables, src/symmetric/des.js:6-134                                  *)
(***************************************************************************)
IP ==
  << 58, 50, 42, 34, 26, 18, 10, 2,
     60, 52, 44, 36, 28, 20, 12, 4,
     62, 54, 46, 38, 30, 22, 14, 6,
     64, 56, 48, 40, 32, 24, 16, 8,
     57, 49, 41, 33, 25, 17, 9, 1,
     59, 51, 43, 35, 27, 19, 11, 3,
     61, 53, 45, 37, 29, 21, 13, 5,
     63, 55, 47, 39, 31, 23, 15, 7 >>

FP ==
  << 40, 8, 48, 16, 56, 24, 64, 32,
     39, 7, 47, 15, 55, 23, 63, 31,
     38, 6, 46, 14, 54, 22, 62, 30,
     37, 5, 45, 13, 53, 21, 61, 29,
     36, 4, 44, 12, 52, 20, 60, 28,
     35, 3, 43, 11, 51, 19, 59, 27,
     34, 2, 42, 10, 50, 18, 58, 26,
     33, 1, 41, 9, 49, 17, 57, 25 >>

E ==
  << 32, 1, 2, 3, 4, 5,
     4, 5, 6, 7, 8, 9,
     8, 9, 10, 11, 12, 13,
     12, 13, 14, 15, 16, 17,
     16, 17, 18, 19, 20, 21,
     20, 21, 22, 23, 24, 25,
     24, 25, 26, 27, 28, 29,
     28, 29, 30, 31, 32, 1 >>

P ==
  << 16, 7, 20, 21, 29, 12, 28, 17,
     1, 15, 23, 26, 5, 18, 31, 10,
     2, 8, 24, 14, 32, 27, 3, 9,
     19, 13, 30, 6, 22, 11, 4, 25 >>

\* PC1 with the parity position 8 where position 4 stands last
PC1WithParity ==
  << 57, 49, 41, 33, 25, 17, 9,
     1, 58, 50, 42, 34, 26, 18,
     10, 2, 59, 51, 43, 35, 27,
     19, 11, 3, 60, 52, 44, 36,
     63, 55, 47, 39, 31, 23, 15,
     7, 62, 54, 46, 38, 30, 22,
     14, 6, 61, 53, 45, 37, 29,
     21, 13, 5, 28, 20, 12, 8 >>

PC1 ==
  << 57, 49, 41, 33, 25, 17, 9,
     1, 58, 50, 42, 34, 26, 18,
     10, 2, 59, 51, 43, 35, 27,
     19, 11, 3, 60, 52, 44, 36,
     63, 55, 47, 39, 31, 23, 15,
     7, 62, 54, 46, 38, 30, 22,
     14, 6, 61, 53, 45, 37, 29,
     21, 13, 5, 28, 20, 12, 4 >>

PC2 ==
  << 14, 17, 11, 24, 1, 5,
     3, 28, 15, 6, 21, 10,
     23, 19, 12, 4, 26, 8,
     16, 7, 27, 20, 13, 2,
     41, 52, 31, 37, 47, 55,
     30, 40, 51, 45, 33, 48,
     44, 49, 39, 56, 34, 53,
     46, 42, 50, 36, 29, 32 >>

\* SHIFTS with a rotation of 2 in round 9
SHIFTSNinthTwo ==
  << 1, 1, 2, 2, 2, 2, 2, 2, 2, 2, 2, 2, 2, 2, 2, 1 >>

SHIFTS ==
  << 1, 1, 2, 2, 2, 2, 2, 2, 1, 2, 2, 2, 2, 2, 2, 1 >>

S_BOXES ==
  << << << 14, 4, 13, 1, 2, 15, 11, 8, 3, 10, 6, 12, 5, 9, 0, 7 >>,
        << 0, 15, 7, 4, 14, 2, 13, 1, 10, 6, 12, 11, 9, 5, 3, 8 >>,
        << 4, 1, 14, 8, 13, 6, 2, 11, 15, 12, 9, 7, 3, 10, 5, 0 >>,
        << 15, 12, 8, 2, 4, 9, 1, 7, 5, 11, 3, 14, 10, 0, 6, 13 >> >>,
     << << 15, 1, 8, 14, 6, 11, 3, 4, 9, 7, 2, 13, 12, 0, 5, 10 >>,
        << 3, 13, 4, 7, 15, 2, 8, 14, 12, 0, 1, 10, 6, 9, 11, 5 >>,
        << 0, 14, 7, 11, 10, 4, 13, 1, 5, 8, 12, 6, 9, 3, 2, 15 >>,
        << 13, 8, 10, 1, 3, 15, 4, 2, 11, 6, 7, 12, 0, 5, 14, 9 >> >>,
     << << 10, 0, 9, 14, 6, 3, 15, 5, 1, 13, 12, 7, 11, 4, 2, 8 >>,
        << 13, 7, 0, 9, 3, 4, 6, 10, 2, 8, 5, 14, 12, 11, 15, 1 >>,
        << 13, 6, 4, 9, 8, 15, 3, 0, 11, 1, 2, 12, 5, 10, 14, 7 >>,
        << 1, 10, 13, 0, 6, 9, 8, 7, 4, 15, 14, 3, 11, 5, 2, 12 >> >>,
     << << 7, 13, 14, 3, 0, 6, 9, 10, 1, 2, 8, 5, 11, 12, 4, 15 >>,
        << 13, 8, 11, 5, 6, 15, 0, 3, 4, 7, 2, 12, 1, 10, 14, 9 >>,
        << 10, 6, 9, 0, 12, 11, 7, 13, 15, 1, 3, 14, 5, 2, 8, 4 >>,
        << 3, 15, 0, 6, 10, 1, 13, 8, 9, 4, 5, 11, 12, 7, 2, 14 >> >>,
     << << 2, 12, 4, 1, 7, 10, 11, 6, 8, 5, 3, 15, 13, 0, 14, 9 >>,
        << 14, 11, 2, 12, 4, 7, 13, 1, 5, 0, 15, 10, 3, 9, 8, 6 >>,
        << 4, 2, 1, 11, 10, 13, 7, 8, 15, 9, 12, 5, 6, 3, 0, 14 >>,
        << 11, 8, 12, 7, 1, 14, 2, 13, 6, 15, 0, 9, 10, 4, 5, 3 >> >>,
     << << 12, 1, 10, 15, 9, 2, 6, 8, 0, 13, 3, 4, 14, 7, 5, 11 >>,
        << 10, 15, 4, 2, 7, 12, 9, 5, 6, 1, 13, 14, 0, 11, 3, 8 >>,
        << 9, 14, 15, 5, 2, 8, 12, 3, 7, 0, 4, 10, 1, 13, 11, 6 >>,
        << 4, 3, 2, 12, 9, 5, 15, 10, 11, 14, 1, 7, 6, 0, 8, 13 >> >>,
     << << 4, 11, 2, 14, 15, 0, 8, 13, 3, 12, 9, 7, 5, 10, 6, 1 >>,
        << 13, 0, 11, 7, 4, 9, 1, 10, 14, 3, 5, 12, 2, 15, 8, 6 >>,
        << 1, 4, 11, 13, 12, 3, 7, 14, 10, 15, 6, 8, 0, 5, 9, 2 >>,
        << 6, 11, 13, 8, 1, 4, 10, 7, 9, 5, 0, 15, 14, 2, 3, 12 >> >>,
     << << 13, 2, 8, 4, 6, 15, 11, 1, 10, 9, 3, 14, 5, 0, 12, 7 >>,
        << 1, 15, 13, 8, 10, 3, 7, 4, 12, 5, 6, 11, 0, 14, 9, 2 >>,
        << 7, 11, 4, 1, 9, 12, 14, 2, 0, 6, 10, 13, 15, 3, 5, 8 >>,
        << 2, 1, 14, 7, 4, 10, 8, 13, 15, 12, 9, 0, 3, 5, 6, 11 >> >> >>
S_BOX ==
  << 99, 124, 119, 123, 242, 107, 111, 197, 48, 1, 103, 43, 254, 215, 171, 118,
     202, 130, 201, 125, 250, 89, 71, 240, 173, 212, 162, 175, 156, 164, 114, 192,
     183, 253, 147, 38, 54, 63, 247, 204, 52, 165, 229, 241, 113, 216, 49, 21,
     4, 199, 35, 195, 24, 150, 5, 154, 7, 18, 128, 226, 235, 39, 178, 117,
     9, 131, 44, 26, 27, 110, 90, 160, 82, 59, 214, 179, 41, 227, 47, 132,
     83, 209, 0, 237, 32, 252, 177, 91, 106, 203, 190, 57, 74, 76, 88, 207,
     208, 239, 170, 251, 67, 77, 51, 133, 69, 249, 2, 127, 80, 60, 159, 168,
     81, 163, 64, 143, 146, 157, 56, 245, 188, 182, 218, 33, 16, 255, 243, 210,
     205, 12, 19, 236, 95, 151, 68, 23, 196, 167, 126, 61, 100, 93, 25, 115,
     96, 129, 79, 220, 34, 42, 144, 136, 70, 238, 184, 20, 222, 94, 11, 219,
     224, 50, 58, 10, 73, 6, 36, 92, 194, 211, 172, 98, 145, 149, 228, 121,
     231, 200, 55, 109, 141, 213, 78, 169, 108, 86, 244, 234, 101, 122, 174, 8,
     186, 120, 37, 46, 28, 166, 180, 198, 232, 221, 116, 31, 75, 189, 139, 138,
     112, 62, 181, 102, 72, 3, 246, 14, 97, 53, 87, 185, 134, 193, 29, 158,
     225, 248, 152, 17, 105, 217, 142, 148, 155, 30, 135, 233, 206, 85, 40, 223,
     140, 161, 137, 13, 191, 230, 66, 104, 65, 153, 45, 15, 176, 84, 187, 22 >>

INV_S_BOX ==
  << 82, 9, 106, 213, 48, 54, 165, 56, 191, 64, 163, 158, 129, 243, 215, 251,
     124, 227, 57, 130, 155, 47, 255, 135, 52, 142, 67, 68, 196, 222, 233, 203,
     84, 123, 148, 50, 166, 194, 35, 61, 238, 76, 149, 11, 66, 250, 195, 78,
     8, 46, 161, 102, 40, 217, 36, 178, 118, 91, 162, 73, 109, 139, 209, 37,
     114, 248, 246, 100, 134, 104, 152, 22, 212, 164, 92, 204, 93, 101, 182, 146,
     108, 112, 72, 80, 253, 237, 185, 218, 94, 21, 70, 87, 167, 141, 157, 132,
     144, 216, 171, 0, 140, 188, 211, 10, 247, 228, 88, 5, 184, 179, 69, 6,
     208, 44, 30, 143, 202, 63, 15, 2, 193, 175, 189, 3, 1, 19, 138, 107,
     58, 145, 17, 65, 79, 103, 220, 234, 151, 242, 207, 206, 240, 180, 230, 115,
     150, 172, 116, 34, 231, 173, 53, 133, 226, 249, 55, 232, 28, 117, 223, 110,
     71, 241, 26, 113, 29, 41, 197, 137, 111, 183, 98, 14, 170, 24, 190, 27,
     252, 86, 62, 75, 198, 210, 121, 32, 154, 219, 192, 254, 120, 205, 90, 244,
     31, 221, 168, 51, 136, 7, 199, 49, 177, 18, 16, 89, 39, 128, 236, 95,
     96, 81, 127, 169, 25, 181, 74, 13, 45, 229, 122, 159, 147, 201, 156, 239,
     160, 224, 59, 77, 174, 42, 245, 176, 200, 235, 187, 60, 131, 83, 153, 97,
     23, 43, 4, 126, 186, 119, 214, 38, 225, 105, 20, 99, 85, 33, 12, 125 >>

RCON ==
  << 0, 1, 2, 4, 8, 16, 32, 64, 128, 27, 54 >>
(***************************************************************************)
(* Helpers on sequences                                                    *)
(***************************************************************************)
\* s.slice(a, b) of a string or array: elements a .. b-1 (0-based), clipped.
Slice(s, a, b) ==
  LET hi == IF b > Len(s) THEN Len(s) ELSE b
  IN  IF a >= hi THEN << >> ELSE SubSeq(s, a + 1, hi)

\* The value JavaScript reads past the end of an array or string.
Undefined == -1

\* parts.join('') for parts that are all n characters long.
Flatten(ss, n) ==
  [k \in 1..(n * Len(ss)) |-> ss[((k - 1) \div n) + 1][((k - 1) % n) + 1]] \o << >>

\* array.reverse()
Reverse(s) == [i \in 1..Len(s) |-> s[Len(s) + 1 - i]] \o << >>

\* Array(n).fill(v)
Fill(n, v) == [i \in 1..n |-> v] \o << >>

(***************************************************************************)
(* Hexadecimal digits                                                      *)
(***************************************************************************)
\* The character class [0-9A-Fa-f] of the key and ciphertext checks.
IsHexChar(c) ==
  \/ c \in 48..57
  \/ c \in 65..70
  \/ c \in 97..102

\* parseInt(h, 16) reading the letters a-f as 0
HexValLowerZero(c) ==
  IF c \in 48..57 THEN c - 48
  ELSE IF c \in 65..70 THEN c - 55
  ELSE IF c \in 97..102 THEN 0
  ELSE -1

\* parseInt(h, 16) of a one-character string; -1 stands for NaN.
HexVal(c) ==
  IF c \in 48..57 THEN c - 48
  ELSE IF c \in 65..70 THEN c - 55
  ELSE IF c \in 97..102 THEN c - 87
  ELSE -1

\* d.toString(16).toUpperCase() of one digit 0..15
HexDigitUpper(d) == IF d < 10 THEN 48 + d ELSE 55 + d

RECURSIVE ToHexUpper(_)
\* b.toString(16).toUpperCase() for b >= 0: as many digits as b needs.
ToHexUpper(b) ==
  IF b < 16 THEN << HexDigitUpper(b) >>
  ELSE Append(ToHexUpper(b \div 16), HexDigitUpper(b % 16))

\* n.toString(2).padStart(4, '0') for n in 0..15, as bits
Bits4(n) == << (n \div 8) % 2, (n \div 4) % 2, (n \div 2) % 2, n % 2 >>

RECURSIVE BitsToInt(_)
\* parseInt(bits, 2)
BitsToInt(bits) ==
  IF bits = << >> THEN 0
  ELSE 2 * BitsToInt(SubSeq(bits, 1, Len(bits) - 1)) + bits[Len(bits)]

(***************************************************************************)
(* DES, src/symmetric/des.js                                               *)
(***************************************************************************)
RECURSIVE BitsUnpadded(_)
\* n.toString(2), as bits
BitsUnpadded(n) == IF n < 2 THEN << n >> ELSE Append(BitsUnpadded(n \div 2), n % 2)

RECURSIVE hexToBinaryUnpadded(_)
\* hexToBinary without padStart(4, '0')
hexToBinaryUnpadded(hex) ==
  IF hex = << >> THEN << >>
  ELSE hexToBinaryUnpadded(SubSeq(hex, 1, Len(hex) - 1)) \o BitsUnpadded(HexVal(hex[Len(hex)]))

\* hexToBinary(hex): four bits per hexadecimal character
hexToBinary(hex) == Flatten([i \in 1..Len(hex) |-> Bits4(HexVal(hex[i]))], 4)

\* binaryToHex(binary): one uppercase hexadecimal character per four bits
binaryToHex(binary) ==
  [k \in 1..((Len(binary) + 3) \div 4) |->
     HexDigitUpper(BitsToInt(Slice(binary, 4 * (k - 1), 4 * k)))] \o << >>

\* permute reading input[pos] for input[pos - 1]
permuteFromZero(input, table) ==
  LET picked == [i \in 1..Len(table) |->
                   IF table[i] + 1 <= Len(input) THEN input[table[i] + 1] ELSE Undefined]
  IN  SelectSeq(picked \o << >>, LAMBDA v : v # Undefined)

\* permute(input, table): table.map(pos => input[pos - 1]).join('');
\* a position past the end of input reads undefined, which join drops.
permute(input, table) ==
  LET picked == [i \in 1..Len(table) |->
                   IF table[i] <= Len(input) THEN input[table[i]] ELSE Undefined]
  IN  SelectSeq(picked \o << >>, LAMBDA v : v # Undefined)

\* leftShift moving the bits one place whatever n is
leftShiftByOne(bits, n) == Slice(bits, 1, Len(bits)) \o Slice(bits, 0, 1)

\* leftShift(bits, n)
leftShift(bits, n) == Slice(bits, n, Len(bits)) \o Slice(bits, 0, n)

\* xor(a, b): bit i of a XOR bit i of b; a missing b[i] is undefined, ^ reads it as 0.
xor(a, b) ==
  [i \in 1..Len(a) |-> IF i <= Len(b) THEN (a[i] + b[i]) % 2 ELSE a[i]] \o << >>

\* generateKeys, lines 169-176: the halves C and D before the first round
KeyHalves(key) ==
  LET keyBinary   == hexToBinary(key)
      permutedKey == permute(keyBinary, PC1)
  IN  [C |-> Slice(permutedKey, 0, 28), D |-> Slice(permutedKey, 28, 56)]

\* generateKeys, lines 181-189: iteration i (0-based) of the loop, from the
\* halves h and the round keys pushed so far
KeyRound(h, roundKeys, i) ==
  LET C == leftShift(h.C, SHIFTS[i + 1])
      D == leftShift(h.D, SHIFTS[i + 1])
      combined == C \o D
  IN  [C |-> C, D |-> D, roundKeys |-> Append(roundKeys, permute(combined, PC2))]

\* One S-box step of feistel: group i (0-based) of the 48 xored bits
SBoxOut(xored, i) ==
  LET block == Slice(xored, i * 6, i * 6 + 6)
      row   == BitsToInt(<< block[1], block[6] >>)
      col   == BitsToInt(SubSeq(block, 2, 5))
  IN  Bits4(S_BOXES[i + 1][row + 1][col + 1])

\* feistel(R, roundKey)
feistel(R, roundKey) ==
  LET expanded == permute(R, E)
      xored    == xor(expanded, roundKey)
      sBoxOutput == Flatten([i \in 1..8 |-> SBoxOut(xored, i - 1)], 4)
  IN  permute(sBoxOutput, P)

\* desCore, lines 219-223: the halves L and R before the first round
CoreHalves(block) ==
  LET permuted == permute(block, IP)
  IN  [L |-> Slice(permuted, 0, 32), R |-> Slice(permuted, 32, 64)]

\* desCore, lines 226-232: iteration i (0-based) of the round loop
CoreRound(h, keys, i) ==
  LET newL == h.R
      f    == feistel(h.R, keys[i + 1])
      newR == xor(h.L, f)
  IN  [L |-> newL, R |-> newR]

\* desCore without the swap: preOutput = L + R
CoreOutputUnswapped(h) ==
  LET preOutput == h.L \o h.R
  IN  permute(preOutput, FP)

\* desCore, lines 235-238: the swap R16 L16 and the final permutation
CoreOutput(h) ==
  LET preOutput == h.R \o h.L
  IN  permute(preOutput, FP)

(***************************************************************************)
(* Byte, hex and text conversions (the same code in both engines)          *)
(***************************************************************************)
\* parseInt(s, 16) of a string of one or two hexadecimal characters
ParseHex(s) ==
  IF Len(s) = 1 THEN HexVal(s[1]) ELSE 16 * HexVal(s[1]) + HexVal(s[2])

\* hexToBytes(hex): one byte per two characters (a last odd character alone)
hexToBytes(hex) ==
  [k \in 1..((Len(hex) + 1) \div 2) |-> ParseHex(Slice(hex, 2 * (k - 1), 2 * k))] \o << >>

\* b.toString(16).padStart(2, '0') in upper case: at least two characters,
\* more when b > 255.
ByteHex(b) == IF b < 16 THEN << 48, HexDigitUpper(b) >> ELSE ToHexUpper(b)

RECURSIVE JoinAll(_)
\* parts.join('') for parts of any lengths (joined by halves)
JoinAll(ss) ==
  IF Len(ss) = 0 THEN << >>
  ELSE IF Len(ss) = 1 THEN ss[1]
  ELSE LET m == Len(ss) \div 2
       IN  JoinAll(SubSeq(ss, 1, m)) \o JoinAll(SubSeq(ss, m + 1, Len(ss)))

\* bytesToHex(bytes)
bytesToHex(bytes) == JoinAll([i \in 1..Len(bytes) |-> ByteHex(bytes[i])] \o << >>)

\* stringToBytes(str): c.charCodeAt(0) of every UTF-16 code unit
stringToBytes(str) == [i \in 1..Len(str) |-> str[i]] \o << >>

\* String.fromCharCode keeping seven bits of b
fromCharCodeAscii(b) == b % 128

\* String.fromCharCode(b): the code unit b modulo 2^16
fromCharCode(b) == b % 65536

\* bytesToString(bytes)
bytesToString(bytes) == [i \in 1..Len(bytes) |-> fromCharCode(bytes[i])] \o << >>

\* padBytes that adds nothing to an input already a multiple of the block
padBytesNoFullBlock(bytes, blockSize) ==
  LET padLen == (blockSize - (Len(bytes) % blockSize)) % blockSize
  IN  bytes \o Fill(padLen, padLen)

\* padBytes(bytes, blockSize): PKCS#7 padding
padBytes(bytes, blockSize) ==
  LET padLen == blockSize - (Len(bytes) % blockSize)
  IN  bytes \o Fill(padLen, padLen)

\* bytes.slice(0, -padLen)
DropLast(bytes, padLen) ==
  IF padLen >= Len(bytes) THEN << >> ELSE SubSeq(bytes, 1, Len(bytes) - padLen)

\* unpadBytes without its padLen > 0 test: a last byte of 0 then strips with
\* slice(0, -0), which is slice(0, 0)
aesUnpadBytesZero(bytes) ==
  LET padLen == IF Len(bytes) = 0 THEN Undefined ELSE bytes[Len(bytes)]
  IN  IF padLen >= 0 /\ padLen <= 16
      THEN (IF padLen = 0 THEN << >> ELSE DropLast(bytes, padLen))
      ELSE bytes

\* unpadBytes(bytes) of the AES engine
aesUnpadBytes(bytes) ==
  LET padLen == IF Len(bytes) = 0 THEN Undefined ELSE bytes[Len(bytes)]
  IN  IF padLen > 0 /\ padLen <= 16 THEN DropLast(bytes, padLen) ELSE bytes

\* padBytes(bytes) of the DES engine: blockSize is 8
desPadBytes(bytes) ==
  LET blockSize == 8
      padLen == blockSize - (Len(bytes) % blockSize)
  IN  bytes \o Fill(padLen, padLen)

\* unpadBytes with padLen < 8 for padLen <= 8: a full block of padding stays
desUnpadBytesStrict(bytes) ==
  LET padLen == IF Len(bytes) = 0 THEN Undefined ELSE bytes[Len(bytes)]
  IN  IF padLen > 0 /\ padLen < 8 THEN DropLast(bytes, padLen) ELSE bytes

\* unpadBytes(bytes) of the DES engine
desUnpadBytes(bytes) ==
  LET padLen == IF Len(bytes) = 0 THEN Undefined ELSE bytes[Len(bytes)]
  IN  IF padLen > 0 /\ padLen <= 8 THEN DropLast(bytes, padLen) ELSE bytes

(***************************************************************************)
(* AES-128, src/unnamed/part_001                                           *)
(***************************************************************************)
\* ToInt32 of an operand of ^, & or <<: undefined reads as 0
Int32(v) == IF v = Undefined THEN 0 ELSE v

\* a ^ b for a and b in 0..15, bit by bit
Xor4 ==
  [a \in 0..15 |-> [b \in 0..15 |->
     ((a + b) % 2)
     + 2 * (((a \div 2) + (b \div 2)) % 2)
     + 4 * (((a \div 4) + (b \div 4)) % 2)
     + 8 * (((a \div 8) + (b \div 8)) % 2)]]

RECURSIVE XorNat(_, _)
\* a ^ b for naturals, four bits at a time
XorNat(a, b) ==
  IF a < 16 /\ b < 16 THEN Xor4[a][b]
  ELSE Xor4[a % 16][b % 16] + 16 * XorNat(a \div 16, b \div 16)

\* a ^ b
BitXor(a, b) == XorNat(Int32(a), Int32(b))

\* table[index] of a 0-based JavaScript array
Lookup(table, index) ==
  IF index >= 0 /\ index < Len(table) THEN table[index + 1] ELSE Undefined

\* bytesToState(bytes): state[c][r] = bytes[c * 4 + r]
bytesToState(bytes) ==
  [c \in 1..4 |-> [r \in 1..4 |-> Lookup(bytes, (c - 1) * 4 + (r - 1))] \o << >>] \o << >>

\* stateToBytes(state)
stateToBytes(state) ==
  [k \in 1..16 |-> state[((k - 1) \div 4) + 1][((k - 1) % 4) + 1]] \o << >>

\* subBytes(state)
subBytes(state) ==
  [c \in 1..4 |-> [r \in 1..4 |-> Lookup(S_BOX, state[c][r])] \o << >>] \o << >>

\* invSubBytes looking its bytes up in S_BOX
invSubBytesForward(state) ==
  [c \in 1..4 |-> [r \in 1..4 |-> Lookup(S_BOX, state[c][r])] \o << >>] \o << >>

\* invSubBytes(state)
invSubBytes(state) ==
  [c \in 1..4 |-> [r \in 1..4 |-> Lookup(INV_S_BOX, state[c][r])] \o << >>] \o << >>

\* shiftRows moving the rows right, as invShiftRows does
shiftRowsRight(state) ==
  [c \in 1..4 |-> [r \in 1..4 |-> state[((c - 1 + 4 - (r - 1)) % 4) + 1][r]] \o << >>] \o << >>

\* shiftRows(state): row r (0-based) moves left by r columns
shiftRows(state) ==
  [c \in 1..4 |-> [r \in 1..4 |-> state[((c - 1 + (r - 1)) % 4) + 1][r]] \o << >>] \o << >>

\* invShiftRows moving the rows left, as shiftRows does
invShiftRowsLeft(state) ==
  [c \in 1..4 |-> [r \in 1..4 |-> state[((c - 1 + (r - 1)) % 4) + 1][r]] \o << >>] \o << >>

\* invShiftRows(state): row r (0-based) moves right by r columns
invShiftRows(state) ==
  [c \in 1..4 |-> [r \in 1..4 |-> state[((c - 1 + 4 - (r - 1)) % 4) + 1][r]] \o << >>] \o << >>

\* xtime with 0x1d for 0x1b
xtimeOtherPolynomial(a) ==
  LET v == Int32(a)
  IN  XorNat(2 * v, IF (v \div 128) % 2 = 1 THEN 29 ELSE 0)

\* xtime(a) = (a << 1) ^ ((a & 0x80) ? 0x1b : 0x00); the result is not masked
xtime(a) ==
  LET v == Int32(a)
  IN  XorNat(2 * v, IF (v \div 128) % 2 = 1 THEN 27 ELSE 0)

RECURSIVE GmulLoop(_, _, _)
\* The while loop of gmul
GmulLoop(result, temp, b) ==
  IF b > 0
  THEN GmulLoop(IF b % 2 = 1 THEN BitXor(result, temp) ELSE result, xtime(temp), b \div 2)
  ELSE result

\* gmul without the mask: return result
gmulUnmasked(a, b) == GmulLoop(0, a, b)

\* gmul(a, b): the result is masked to 8 bits
gmul(a, b) == GmulLoop(0, a, b) % 256

\* One column of mixColumns
MixColumn(a) ==
  << BitXor(BitXor(gmul(a[1], 2), gmul(a[2], 3)), BitXor(a[3], a[4])),
     BitXor(BitXor(a[1], gmul(a[2], 2)), BitXor(gmul(a[3], 3), a[4])),
     BitXor(BitXor(a[1], a[2]), BitXor(gmul(a[3], 2), gmul(a[4], 3))),
     BitXor(BitXor(gmul(a[1], 3), a[2]), BitXor(a[3], gmul(a[4], 2))) >>

\* mixColumns(state)
mixColumns(state) == [c \in 1..4 |-> MixColumn(state[c])] \o << >>

\* One column of invMixColumns with 0x0b and 0x0d exchanged
InvMixColumnSwapped(a) ==
  << BitXor(BitXor(gmul(a[1], 14), gmul(a[2], 13)), BitXor(gmul(a[3], 11), gmul(a[4], 9))),
     BitXor(BitXor(gmul(a[1], 9), gmul(a[2], 14)), BitXor(gmul(a[3], 13), gmul(a[4], 11))),
     BitXor(BitXor(gmul(a[1], 11), gmul(a[2], 9)), BitXor(gmul(a[3], 14), gmul(a[4], 13))),
     BitXor(BitXor(gmul(a[1], 13), gmul(a[2], 11)), BitXor(gmul(a[3], 9), gmul(a[4], 14))) >>

\* One column of invMixColumns
InvMixColumn(a) ==
  << BitXor(BitXor(gmul(a[1], 14), gmul(a[2], 11)), BitXor(gmul(a[3], 13), gmul(a[4], 9))),
     BitXor(BitXor(gmul(a[1], 9), gmul(a[2], 14)), BitXor(gmul(a[3], 11), gmul(a[4], 13))),
     BitXor(BitXor(gmul(a[1], 13), gmul(a[2], 9)), BitXor(gmul(a[3], 14), gmul(a[4], 11))),
     BitXor(BitXor(gmul(a[1], 11), gmul(a[2], 13)), BitXor(gmul(a[3], 9), gmul(a[4], 14))) >>

\* invMixColumns(state)
invMixColumns(state) == [c \in 1..4 |-> InvMixColumn(state[c])] \o << >>

\* addRoundKey(state, roundKey): state[c][r] ^= roundKey[c * 4 + r]
addRoundKey(state, roundKey) ==
  [c \in 1..4 |->
     [r \in 1..4 |-> BitXor(state[c][r], Lookup(roundKey, (c - 1) * 4 + (r - 1)))] \o << >>]
  \o << >>

\* rotWord turning the word right
rotWordRight(word) == << word[4], word[1], word[2], word[3] >>

\* rotWord(word)
rotWord(word) == << word[2], word[3], word[4], word[1] >>

\* subWord(word)
subWord(word) == [j \in 1..4 |-> Lookup(S_BOX, word[j])] \o << >>

\* keyExpansion, lines 241-247: the first Nk words are the key
KeyWords(key) ==
  LET Nk == 4
      keyBytes == hexToBytes(key)
  IN  [i \in 1..Nk |-> Slice(keyBytes, (i - 1) * 4, i * 4)] \o << >>

\* keyExpansion, lines 251-258: word w[i] (i 0-based) from w[i - 1] and w[i - Nk]
NextWord(w, i) ==
  LET Nk == 4
      prev == w[i]
      temp == IF i % Nk = 0
              THEN LET t == subWord(rotWord(prev))
                   IN  [t EXCEPT ![1] = BitXor(t[1], Lookup(RCON, i \div Nk))]
              ELSE prev
  IN  [j \in 1..4 |-> BitXor(w[i + 1 - Nk][j], temp[j])] \o << >>

\* keyExpansion, lines 262-269: the words grouped into 11 round keys
WordsToRoundKeys(w) ==
  [round \in 1..11 |->
     w[(round - 1) * 4 + 1] \o w[(round - 1) * 4 + 2]
       \o w[(round - 1) * 4 + 3] \o w[(round - 1) * 4 + 4]] \o << >>

(***************************************************************************)
(* Inputs of the bounded model                                             *)
(***************************************************************************)
\* The longest plaintext the caller passes.
MaxLen == 17

\* "HELLO" followed by bytes chosen for the padding cases: a 0, a 255, the
\* block sizes 8 and 16 at the block boundaries, a 1 before the boundary.
BaseText == << 72, 69, 76, 76, 79, 0, 255, 8, 87, 79, 82, 76, 68, 200, 1, 16, 33, 65, 66 >>

\* BaseText with a 0 at the end of the second 8-byte and first 16-byte block.
ZeroText == << 72, 69, 76, 76, 79, 0, 255, 8, 87, 79, 82, 76, 68, 200, 1, 0 >>

\* str.slice(0, n)
Prefix(str, n) == Slice(str, 0, n)

\* Plaintext lengths around the block boundaries of both engines.
Lengths == { n \in 0..MaxLen : n % 8 \in {0, 1, 7} }

\* Plaintexts of single-byte characters (code points 0..255).
NarrowPlaintexts == { Prefix(BaseText, n) : n \in Lengths } \cup { ZeroText }

\* Plaintexts with a character above 255: "H" PI, EURO "A", U+0100 alone,
\* and nine characters with U+FFFF in the second block.
WidePlaintexts ==
  { << 72, 960 >>, << 8364, 65 >>, << 256 >>,
    << 72, 69, 76, 76, 79, 87, 79, 82, 65535 >> }

Plaintexts == NarrowPlaintexts \cup WidePlaintexts

DesKeyA == << 49, 51, 51, 52, 53, 55, 55, 57, 57, 66, 66, 67, 68, 70, 70, 49 >>   \* "133457799BBCDFF1"
DesKeyB == << 48, 101, 51, 50, 57, 50, 51, 50, 101, 97, 54, 100, 48, 100, 55, 51 >>   \* "0e329232ea6d0d73"
AesKeyA ==   \* "2b7e151628aed2a6abf7158809cf4f3c"
  << 50, 98, 55, 101, 49, 53, 49, 54, 50, 56, 97, 101, 100, 50, 97, 54, 97, 98, 102, 55, 49, 53, 56, 56, 48, 57, 99, 102, 52, 102, 51, 99 >>
AesKeyB ==   \* "000102030405060708090A0B0C0D0E0F"
  << 48, 48, 48, 49, 48, 50, 48, 51, 48, 52, 48, 53, 48, 54, 48, 55, 48, 56, 48, 57, 48, 65, 48, 66, 48, 67, 48, 68, 48, 69, 48, 70 >>

\* Malformed keys: "not-hex", "00", "", "133457799BBCDFFG" (16 characters,
\* the last not hexadecimal) and "133457799BBCDFF10" (17 hexadecimal characters).
BadKeys ==
  { << 110, 111, 116, 45, 104, 101, 120 >>,
    << 48, 48 >>,
    << >>,
    << 49, 51, 51, 52, 53, 55, 55, 57, 57, 66, 66, 67, 68, 70, 70, 71 >>,
    << 49, 51, 51, 52, 53, 55, 55, 57, 57, 66, 66, 67, 68, 70, 70, 49, 48 >> }

Keys == { DesKeyA, DesKeyB, AesKeyA, AesKeyB } \cup BadKeys

\* Ciphertexts the caller passes to decrypt on their own: "zz", "AB", "",
\* one and two 8-byte blocks in either case, a block with a non-hexadecimal
\* last character, one 16-byte block and three 8-byte blocks.
Ciphertexts ==
  { << 122, 122 >>,
    << 65, 66 >>,
    << >>,
    << 56, 53, 69, 56, 49, 51, 53, 52, 48, 70, 48, 65, 66, 52, 48, 53 >>,
    << 56, 53, 101, 56, 49, 51, 53, 52, 48, 102, 48, 97, 98, 52, 48, 53 >>,
    << 56, 53, 69, 56, 49, 51, 53, 52, 48, 70, 48, 65, 66, 52, 48, 71 >>,
    << 51, 57, 50, 53, 56, 52, 49, 68, 48, 50, 68, 67, 48, 57, 70, 66, 68, 67, 49, 49, 56, 53, 57, 55, 49, 57, 54, 65, 48, 66, 51, 50 >>,
    << 48, 48, 48, 48, 48, 48, 48, 48, 48, 48, 48, 48, 48, 48, 48, 48, 48, 48, 48, 48, 48, 48, 48, 48, 48, 48, 48, 48, 48, 48, 48, 48, 102, 102, 102, 102, 102, 102, 102, 102, 102, 102, 102, 102, 102, 102, 102, 102 >> }

Engines == { "des", "aes" }

\* The calls counted after the caller has noted a result.
MaxSince == 2

\* Inputs of the caller that compares two encrypt results: a 17-character
\* plaintext (three DES blocks, two AES blocks once padded), the same with
\* character 9 changed (second DES block, first AES block) and with character
\* 16 changed (third DES block, second AES block); one well-formed key per
\* engine and the malformed "00"; the ciphertexts "AB", one DES block and one
\* AES block.
HistText == Prefix(BaseText, 17)
HistPlaintexts ==
  { HistText, [HistText EXCEPT ![10] = 90], [HistText EXCEPT ![17] = 90] }
HistKeys == { DesKeyA, AesKeyA, << 48, 48 >> }
HistCiphertexts ==
  { << 65, 66 >>,
    << 56, 53, 69, 56, 49, 51, 53, 52, 48, 70, 48, 65, 66, 52, 48, 53 >>,
    << 51, 57, 50, 53, 56, 52, 49, 68, 48, 50, 68, 67, 48, 57, 70, 66, 68, 67, 49, 49, 56, 53, 57, 55, 49, 57, 54, 65, 48, 66, 51, 50 >> }

(***************************************************************************)
(* The state: one caller, and the locals of the call it is running         *)
(***************************************************************************)
VARIABLES
  pc,         \* where the caller or the running call stands
  call,       \* the running (or last) call: engine, op, text, key
  result,     \* what the last call returned or threw
  sched,      \* key schedule locals: C and D (DES), w (AES)
  roundKeys,  \* the round keys pushed so far: keys (DES), roundKeys (AES)
  data,       \* plaintextBytes of encrypt, ciphertextBytes of decrypt
  acc,        \* the output bytes pushed so far: ciphertext / plaintextBytes
  i,          \* the index of the block loop
  work,       \* block locals: L and R (DES), state (AES) and the steps applied to it
  round,      \* the counter of the loop the call is in
  origin,     \* caller's note: the plaintext whose ciphertext is being decrypted
  memo,       \* caller's note: an earlier encrypt call and what it returned
  col,        \* the columnar transposition calls
  rf,         \* the rail fence calls and their locals
  probe       \* a single function applied to an argument, and what it gave

vars ==
  << pc, call, result, sched, roundKeys, data, acc, i, work, round, origin, memo,
     col, rf, probe >>

locals == << sched, roundKeys, data, acc, i, work, round >>

\* What the block-cipher engines never touch.
aside == << col, rf, probe >>

NoResult == [kind |-> "none", value |-> << >>, message |-> ""]
Returned(v) == [kind |-> "value", value |-> v, message |-> ""]
\* throw new Error(message)
Thrown(m) == [kind |-> "error", value |-> << >>, message |-> m]

DesKeyMessage == "Key must be exactly 16 hexadecimal characters (64 bits)"
DesCiphertextMessage == "Ciphertext must be hex string with length multiple of 16"
AesKeyMessage == "Key must be exactly 32 hexadecimal characters (128 bits)"
AesCiphertextMessage == "Ciphertext must be hex string with length multiple of 32"

\* A note of the caller: a call it made and the value it got; since counts
\* the calls made after the note was taken, up to MaxSince.
NoNote ==
  [kind |-> "none", engine |-> "", text |-> << >>, key |-> << >>, value |-> << >>,
   since |-> 0]
NoCall == [engine |-> "", op |-> "", text |-> << >>, key |-> << >>]
NoSched == [C |-> << >>, D |-> << >>, w |-> << >>]
NoWork == [L |-> << >>, R |-> << >>, state |-> << >>, steps |-> << >>]
ColIdle == [phase |-> "off", text |-> << >>, key |-> << >>, out |-> << >>, back |-> << >>]
RfIdle ==
  [phase |-> "off", text |-> << >>, numRails |-> 0, chars |-> << >>, rails |-> << >>,
   railLengths |-> << >>, rail |-> 0, direction |-> 1, i |-> 0, result |-> << >>,
   out |-> << >>, back |-> << >>]
NoProbe == [fn |-> "none", arg |-> << >>, mid |-> << >>, out |-> << >>]

\* /^[0-9A-Fa-f]{n}/.test(s): the pattern without its closing anchor
HexPrefix(s, n) == Len(s) >= n /\ \A k \in 1..n : IsHexChar(s[k])

\* /^[0-9A-F]{n}$/.test(s): the pattern without the lower-case letters
HexUpperExactly(s, n) ==
  Len(s) = n /\ \A k \in 1..Len(s) : s[k] \in 48..57 \/ s[k] \in 65..70

\* /[0-9A-Fa-f]+/.test(s): the pattern without its anchors
HexSomewhere(s) == \E k \in 1..Len(s) : IsHexChar(s[k])

\* /^[0-9A-Fa-f]*$/.test(s): the pattern with * for +
HexPossiblyEmpty(s) == \A k \in 1..Len(s) : IsHexChar(s[k])

\* /^[0-9A-Fa-f]{n}$/.test(s)
HexExactly(s, n) == Len(s) = n /\ \A k \in 1..Len(s) : IsHexChar(s[k])

\* /^[0-9A-Fa-f]+$/.test(s)
HexNonEmpty(s) == Len(s) >= 1 /\ \A k \in 1..Len(s) : IsHexChar(s[k])

Init ==
  /\ pc = "idle"
  /\ call = NoCall
  /\ result = NoResult
  /\ sched = NoSched
  /\ roundKeys = << >>
  /\ data = << >>
  /\ acc = << >>
  /\ i = 0
  /\ work = NoWork
  /\ round = 0
  /\ origin = NoNote
  /\ memo = NoNote
  /\ col = ColIdle
  /\ rf = RfIdle
  /\ probe = NoProbe

(***************************************************************************)
(* The caller                                                              *)
(***************************************************************************)
\* A call entry that leaves the output array of the call before in place, as
\* an array declared outside the function would be
EnterKeepingOutput(engine, op, text, key) ==
  /\ pc \in {"idle", "done"}
  /\ call' = [engine |-> engine, op |-> op, text |-> text, key |-> key]
  /\ result' = NoResult
  /\ sched' = NoSched
  /\ roundKeys' = << >>
  /\ data' = << >>
  /\ acc' = acc
  /\ i' = 0
  /\ work' = NoWork
  /\ round' = 0
  /\ pc' = "keyCheck"
  /\ memo' = IF memo.kind = "remembered" /\ memo.since < MaxSince
             THEN [memo EXCEPT !.since = @ + 1]
             ELSE memo
  /\ UNCHANGED aside

\* decrypt entered at its ciphertext check
EnterAtCiphertextCheck(engine, op, text, key) ==
  /\ pc \in {"idle", "done"}
  /\ call' = [engine |-> engine, op |-> op, text |-> text, key |-> key]
  /\ result' = NoResult
  /\ sched' = NoSched
  /\ roundKeys' = << >>
  /\ data' = << >>
  /\ acc' = << >>
  /\ i' = 0
  /\ work' = NoWork
  /\ round' = 0
  /\ pc' = IF op = "decrypt" THEN "ciphertextCheck" ELSE "keyCheck"
  /\ memo' = IF memo.kind = "remembered" /\ memo.since < MaxSince
             THEN [memo EXCEPT !.since = @ + 1]
             ELSE memo
  /\ UNCHANGED aside

\* A call enters encrypt or decrypt (des.js:284, 312; part_001:338, 364). Its
\* locals are new: each starts as its declaration leaves it (const roundKeys
\* = [], let ciphertext = [], let plaintextBytes = [], let i = 0) and the
\* others hold nothing until the step that assigns them.
Enter(engine, op, text, key) ==
  /\ pc \in {"idle", "done"}
  /\ call' = [engine |-> engine, op |-> op, text |-> text, key |-> key]
  /\ result' = NoResult
  /\ sched' = NoSched
  /\ roundKeys' = << >>
  /\ data' = << >>
  /\ acc' = << >>
  /\ i' = 0
  /\ work' = NoWork
  /\ round' = 0
  /\ pc' = "keyCheck"
  /\ memo' = IF memo.kind = "remembered" /\ memo.since < MaxSince
             THEN [memo EXCEPT !.since = @ + 1]
             ELSE memo
  /\ UNCHANGED aside

\* engine.encrypt(plaintext, key)
CallEncrypt(engine, plaintext, key) ==
  /\ Enter(engine, "encrypt", plaintext, key)
  /\ origin' = NoNote

\* engine.decrypt(ciphertext, key)
CallDecrypt(engine, ciphertext, key) ==
  /\ Enter(engine, "decrypt", ciphertext, key)
  /\ origin' = NoNote

\* engine.decrypt(encrypted, key) with the value encrypt has just returned,
\* as in the usage examples (des.js:348-350, part_001:398-400)
CallDecryptOfResult ==
  /\ pc = "done"
  /\ call.op = "encrypt"
  /\ result.kind = "value"
  /\ Enter(call.engine, "decrypt", result.value, call.key)
  /\ origin' = [NoNote EXCEPT !.kind = "encrypted", !.engine = call.engine,
                              !.text = call.text, !.key = call.key,
                              !.value = result.value]

\* engine.decrypt of the returned ciphertext without its last block: the
\* decrypted bytes then end in plaintext, not in padding.
CallDecryptOfTruncated ==
  /\ pc = "done"
  /\ call.op = "encrypt"
  /\ result.kind = "value"
  /\ LET blockChars == IF call.engine = "des" THEN 16 ELSE 32
     IN  /\ Len(result.value) > blockChars
         /\ Enter(call.engine, "decrypt",
                  Prefix(result.value, Len(result.value) - blockChars), call.key)
  /\ origin' = NoNote

(***************************************************************************)
(* DES encrypt and decrypt, src/symmetric/des.js:284-341, step by step     *)
(***************************************************************************)
Running(engine, at) == call.engine = engine /\ pc = at

\* des.js:286-288 and 314-316: the key check, first in encrypt and decrypt
DesKeyCheck ==
  /\ Running("des", "keyCheck")
  /\ IF ~HexExactly(call.key, 16)
     THEN /\ result' = Thrown(DesKeyMessage)
          /\ pc' = "done"
     ELSE /\ result' = result
          /\ pc' = IF call.op = "decrypt" THEN "ciphertextCheck" ELSE "schedule"
  /\ UNCHANGED << call, locals, origin, memo, aside >>

\* des.js:319-321: the ciphertext check of decrypt
DesCiphertextCheck ==
  /\ Running("des", "ciphertextCheck")
  /\ IF ~HexNonEmpty(call.text) \/ Len(call.text) % 16 # 0
     THEN /\ result' = Thrown(DesCiphertextMessage)
          /\ pc' = "done"
     ELSE /\ result' = result
          /\ pc' = "schedule"
  /\ UNCHANGED << call, locals, origin, memo, aside >>

\* des.js:169-178: generateKeys up to its loop
DesKeyHalves ==
  /\ Running("des", "schedule")
  /\ sched' = [sched EXCEPT !.C = KeyHalves(call.key).C, !.D = KeyHalves(call.key).D]
  /\ round' = 0
  /\ pc' = "keyRound"
  /\ UNCHANGED << call, result, roundKeys, data, acc, i, work, origin, memo, aside >>

\* des.js:181-189: one iteration of the loop of generateKeys
DesKeyRound ==
  /\ Running("des", "keyRound")
  /\ round < 16
  /\ LET next == KeyRound(sched, roundKeys, round)
     IN  /\ sched' = [sched EXCEPT !.C = next.C, !.D = next.D]
         /\ roundKeys' = next.roundKeys
  /\ round' = round + 1
  /\ UNCHANGED << pc, call, result, data, acc, i, work, origin, memo, aside >>

\* des.js:291-294 (encrypt) and 324-327 (decrypt): generateKeys returns, the
\* keys are reversed for decrypt, the input becomes bytes
DesPrepare ==
  /\ Running("des", "keyRound")
  /\ call.op \in {"encrypt", "decrypt"}
  /\ round >= 16
  /\ IF call.op = "encrypt"
     THEN /\ roundKeys' = roundKeys
          /\ data' = desPadBytes(stringToBytes(call.text))
     ELSE /\ roundKeys' = Reverse(roundKeys)
          /\ data' = hexToBytes(call.text)
  /\ pc' = "block"
  /\ UNCHANGED << call, result, sched, acc, i, work, round, origin, memo, aside >>

\* The block loop reversing the keys at every block
DesBlockStartReversing ==
  /\ Running("des", "block")
  /\ i < Len(data)
  /\ LET blockBytes == Slice(data, i, i + 8)
         blockHex   == bytesToHex(blockBytes)
         block      == hexToBinary(blockHex)
         halves     == CoreHalves(block)
     IN  work' = [work EXCEPT !.L = halves.L, !.R = halves.R]
  /\ roundKeys' = IF call.op = "decrypt" /\ i > 0 THEN Reverse(roundKeys) ELSE roundKeys
  /\ round' = 0
  /\ pc' = "round"
  /\ UNCHANGED << call, result, sched, data, acc, i, origin, memo, aside >>

\* des.js:298-301 and 331-334, 219-223: the next block enters desCore
DesBlockStart ==
  /\ Running("des", "block")
  /\ i < Len(data)
  /\ LET blockBytes == Slice(data, i, i + 8)
         blockHex   == bytesToHex(blockBytes)
         block      == hexToBinary(blockHex)
         halves     == CoreHalves(block)
     IN  work' = [work EXCEPT !.L = halves.L, !.R = halves.R]
  /\ round' = 0
  /\ pc' = "round"
  /\ UNCHANGED << call, result, sched, roundKeys, data, acc, i, origin, memo, aside >>

\* des.js:226-232: one round of the Feistel network
DesRound ==
  /\ Running("des", "round")
  /\ round < 16
  /\ LET next == CoreRound(work, roundKeys, round)
     IN  work' = [work EXCEPT !.L = next.L, !.R = next.R]
  /\ round' = round + 1
  /\ UNCHANGED << pc, call, result, sched, roundKeys, data, acc, i, origin, memo, aside >>

\* des.js:235-238, 302-303 and 335-336: desCore returns and the block is pushed
DesBlockEnd ==
  /\ Running("des", "round")
  /\ round >= 16
  /\ acc' = acc \o hexToBytes(binaryToHex(CoreOutput(work)))
  /\ i' = i + 8
  /\ pc' = "block"
  /\ UNCHANGED << call, result, sched, roundKeys, data, work, round, origin, memo, aside >>

\* des.js:306 and 340: the loop is over, the call returns
DesReturn ==
  /\ Running("des", "block")
  /\ i >= Len(data)
  /\ result' = IF call.op = "encrypt"
               THEN Returned(bytesToHex(acc))
               ELSE Returned(bytesToString(desUnpadBytes(acc)))
  /\ pc' = "done"
  /\ UNCHANGED << call, locals, origin, memo, aside >>

(***************************************************************************)
(* AES encrypt and decrypt, src/unnamed/part_001:338-391, step by step     *)
(***************************************************************************)
\* part_001:340-342 and 366-368: the key check, first in encrypt and decrypt
AesKeyCheck ==
  /\ Running("aes", "keyCheck")
  /\ IF ~HexExactly(call.key, 32)
     THEN /\ result' = Thrown(AesKeyMessage)
          /\ pc' = "done"
     ELSE /\ result' = result
          /\ pc' = IF call.op = "decrypt" THEN "ciphertextCheck" ELSE "schedule"
  /\ UNCHANGED << call, locals, origin, memo, aside >>

\* part_001:371-373: the ciphertext check of decrypt
AesCiphertextCheck ==
  /\ Running("aes", "ciphertextCheck")
  /\ IF ~HexNonEmpty(call.text) \/ Len(call.text) % 32 # 0
     THEN /\ result' = Thrown(AesCiphertextMessage)
          /\ pc' = "done"
     ELSE /\ result' = result
          /\ pc' = "schedule"
  /\ UNCHANGED << call, locals, origin, memo, aside >>

\* part_001:241-247: keyExpansion up to its word loop
AesKeyWords ==
  /\ Running("aes", "schedule")
  /\ sched' = [sched EXCEPT !.w = KeyWords(call.key)]
  /\ round' = 4
  /\ pc' = "keyWord"
  /\ UNCHANGED << call, result, roundKeys, data, acc, i, work, origin, memo, aside >>

\* part_001:250-259: one iteration of the word loop
AesKeyWord ==
  /\ Running("aes", "keyWord")
  /\ round < 44
  /\ sched' = [sched EXCEPT !.w = Append(sched.w, NextWord(sched.w, round))]
  /\ round' = round + 1
  /\ UNCHANGED << pc, call, result, roundKeys, data, acc, i, work, origin, memo, aside >>

\* part_001:262-271, 345-348 (encrypt) and 376-379 (decrypt): keyExpansion
\* returns the round keys, the input becomes bytes
AesPrepare ==
  /\ Running("aes", "keyWord")
  /\ call.op \in {"encrypt", "decrypt"}
  /\ round >= 44
  /\ roundKeys' = WordsToRoundKeys(sched.w)
  /\ data' = IF call.op = "encrypt"
             THEN padBytes(stringToBytes(call.text), 16)
             ELSE hexToBytes(call.text)
  /\ pc' = "block"
  /\ UNCHANGED << call, result, sched, acc, i, work, round, origin, memo, aside >>

\* The block loop reading bytes 0..15 at every turn
AesBlockStartFirst ==
  /\ Running("aes", "block")
  /\ i < Len(data)
  /\ work' = [work EXCEPT !.state = bytesToState(Slice(data, 0, 16)), !.steps = << >>]
  /\ round' = IF call.op = "encrypt" THEN 0 ELSE 10
  /\ pc' = "addRoundKey"
  /\ UNCHANGED << call, result, sched, roundKeys, data, acc, i, origin, memo, aside >>

\* part_001:352-353, 276 and 383-384, 299: the next block becomes the state
AesBlockStart ==
  /\ Running("aes", "block")
  /\ i < Len(data)
  /\ work' = [work EXCEPT !.state = bytesToState(Slice(data, i, i + 16)), !.steps = << >>]
  /\ round' = IF call.op = "encrypt" THEN 0 ELSE 10
  /\ pc' = "addRoundKey"
  /\ UNCHANGED << call, result, sched, roundKeys, data, acc, i, origin, memo, aside >>

\* part_001:279, 286, 292 (encryptBlock) and 302, 308, 315 (decryptBlock)
AesAddRoundKey ==
  /\ Running("aes", "addRoundKey")
  /\ work' = [work EXCEPT !.state = addRoundKey(work.state, roundKeys[round + 1]),
                          !.steps = Append(@, << "addRoundKey", round >>)]
  /\ IF call.op = "encrypt"
     THEN IF round = 10
          THEN pc' = "store" /\ round' = round
          ELSE pc' = "subBytes" /\ round' = round + 1
     ELSE IF round = 10
          THEN pc' = "invShiftRows" /\ round' = 9
          ELSE IF round >= 1
               THEN pc' = "invMixColumns" /\ round' = round
               ELSE pc' = "store" /\ round' = round
  /\ UNCHANGED << call, result, sched, roundKeys, data, acc, i, origin, memo, aside >>

\* part_001:283 and 290
AesSubBytes ==
  /\ Running("aes", "subBytes")
  /\ work' = [work EXCEPT !.state = subBytes(work.state),
                          !.steps = Append(@, << "subBytes", round >>)]
  /\ pc' = "shiftRows"
  /\ UNCHANGED << call, result, sched, roundKeys, data, acc, i, round, origin, memo, aside >>

\* shiftRows followed by mixColumns in round 10 as well
AesShiftRowsThenMix ==
  /\ Running("aes", "shiftRows")
  /\ work' = [work EXCEPT !.state = shiftRows(work.state),
                          !.steps = Append(@, << "shiftRows", round >>)]
  /\ pc' = "mixColumns"
  /\ UNCHANGED << call, result, sched, roundKeys, data, acc, i, round, origin, memo, aside >>

\* part_001:284 and 291: MixColumns follows in rounds 1-9, not in round 10
AesShiftRows ==
  /\ Running("aes", "shiftRows")
  /\ work' = [work EXCEPT !.state = shiftRows(work.state),
                          !.steps = Append(@, << "shiftRows", round >>)]
  /\ pc' = IF round <= 9 THEN "mixColumns" ELSE "addRoundKey"
  /\ UNCHANGED << call, result, sched, roundKeys, data, acc, i, round, origin, memo, aside >>

\* part_001:285
AesMixColumns ==
  /\ Running("aes", "mixColumns")
  /\ work' = [work EXCEPT !.state = mixColumns(work.state),
                          !.steps = Append(@, << "mixColumns", round >>)]
  /\ pc' = "addRoundKey"
  /\ UNCHANGED << call, result, sched, roundKeys, data, acc, i, round, origin, memo, aside >>

\* part_001:306 and 313
AesInvShiftRows ==
  /\ Running("aes", "invShiftRows")
  /\ work' = [work EXCEPT !.state = invShiftRows(work.state),
                          !.steps = Append(@, << "invShiftRows", round >>)]
  /\ pc' = "invSubBytes"
  /\ UNCHANGED << call, result, sched, roundKeys, data, acc, i, round, origin, memo, aside >>

\* part_001:307 and 314
AesInvSubBytes ==
  /\ Running("aes", "invSubBytes")
  /\ work' = [work EXCEPT !.state = invSubBytes(work.state),
                          !.steps = Append(@, << "invSubBytes", round >>)]
  /\ pc' = "addRoundKey"
  /\ UNCHANGED << call, result, sched, roundKeys, data, acc, i, round, origin, memo, aside >>

\* part_001:309 and 305: InvMixColumns ends a main round of decryptBlock
AesInvMixColumns ==
  /\ Running("aes", "invMixColumns")
  /\ work' = [work EXCEPT !.state = invMixColumns(work.state),
                          !.steps = Append(@, << "invMixColumns", round >>)]
  /\ round' = round - 1
  /\ pc' = "invShiftRows"
  /\ UNCHANGED << call, result, sched, roundKeys, data, acc, i, origin, memo, aside >>

\* part_001:294, 354-355 and 317, 385-386: the block is pushed to the output
AesBlockEnd ==
  /\ Running("aes", "store")
  /\ acc' = acc \o stateToBytes(work.state)
  /\ i' = i + 16
  /\ pc' = "block"
  /\ UNCHANGED << call, result, sched, roundKeys, data, work, round, origin, memo, aside >>

\* part_001:358 and 390: the loop is over, the call returns
AesReturn ==
  /\ Running("aes", "block")
  /\ i >= Len(data)
  /\ result' = IF call.op = "encrypt"
               THEN Returned(bytesToHex(acc))
               ELSE Returned(bytesToString(aesUnpadBytes(acc)))
  /\ pc' = "done"
  /\ UNCHANGED << call, locals, origin, memo, aside >>

DesStep ==
  \/ DesKeyCheck
  \/ DesCiphertextCheck
  \/ DesKeyHalves
  \/ DesKeyRound
  \/ DesPrepare
  \/ DesBlockStart
  \/ DesRound
  \/ DesBlockEnd
  \/ DesReturn

AesStep ==
  \/ AesKeyCheck
  \/ AesCiphertextCheck
  \/ AesKeyWords
  \/ AesKeyWord
  \/ AesPrepare
  \/ AesBlockStart
  \/ AesAddRoundKey
  \/ AesSubBytes
  \/ AesShiftRows
  \/ AesMixColumns
  \/ AesInvShiftRows
  \/ AesInvSubBytes
  \/ AesInvMixColumns
  \/ AesBlockEnd
  \/ AesReturn

\* The caller makes any call, or decrypts what encrypt has just returned.
Caller ==
  \/ \E engine \in Engines, plaintext \in Plaintexts, key \in Keys :
       CallEncrypt(engine, plaintext, key)
  \/ \E engine \in Engines, ciphertext \in Ciphertexts, key \in Keys :
       CallDecrypt(engine, ciphertext, key)
  \/ CallDecryptOfResult
  \/ CallDecryptOfTruncated

Next == Caller \/ DesStep \/ AesStep

Spec == Init /\ [][Next]_vars

(***************************************************************************)
(* A caller that keeps the result of one encrypt call and goes on calling  *)
(***************************************************************************)
\* const encrypted = encrypt(plaintext, key) (des.js:348, part_001:398): the
\* caller keeps what encrypt returned, with the arguments it was called with.
Remember ==
  /\ pc = "done"
  /\ call.op = "encrypt"
  /\ result.kind = "value"
  /\ memo.kind = "none"
  /\ memo' = [kind |-> "remembered", engine |-> call.engine, text |-> call.text,
              key |-> call.key, value |-> result.value, since |-> 0]
  /\ UNCHANGED << pc, call, result, locals, origin, aside >>

CallerHist ==
  \/ \E engine \in Engines, plaintext \in HistPlaintexts, key \in HistKeys :
       CallEncrypt(engine, plaintext, key)
  \/ \E engine \in Engines, ciphertext \in HistCiphertexts, key \in HistKeys :
       CallDecrypt(engine, ciphertext, key)
  \/ Remember

NextHist == CallerHist \/ DesStep \/ AesStep

SpecHist == Init /\ [][NextHist]_vars


(***************************************************************************)
(* Columnar transposition, src/transposition/columnar.js                   *)
(***************************************************************************)
\* The longest plaintext passed to the columnar cipher.
MaxColLen == 10

\* "HELLOWORLD"
ColText == << 72, 69, 76, 76, 79, 87, 79, 82, 76, 68 >>
ColPlaintexts == { Prefix(ColText, n) : n \in 0..MaxColLen }

\* Keys of letters: "ZEBRA", "BA", "AB", "KEY", "AAB" and "ABA" (a letter
\* twice), "A", "CAB", "key", and the empty key.
ColKeys ==
  { << 90, 69, 66, 82, 65 >>, << 66, 65 >>, << 65, 66 >>, << 75, 69, 89 >>,
    << 65, 65, 66 >>, << 65, 66, 65 >>, << 65 >>, << 67, 65, 66 >>,
    << 107, 101, 121 >>, << >> }

ColKeyMessage == "Key must not be empty"

\* char.toUpperCase() of a letter
toUpperCase(c) == IF c \in 97..122 THEN c - 32 ELSE c

\* The comparison of indexed.sort: letters by alphabet, equal letters by
\* index; a and b are 0-based indices into key.
SortsBefore(key, a, b) ==
  \/ toUpperCase(key[a + 1]) < toUpperCase(key[b + 1])
  \/ toUpperCase(key[a + 1]) = toUpperCase(key[b + 1]) /\ a < b

\* getColumnOrder(key): order[k + 1] is the 0-based column read at turn k
getColumnOrder(key) ==
  LET cols == 0..(Len(key) - 1)
      RankOf(a) == Cardinality({ b \in cols : SortsBefore(key, b, a) })
  IN  [k \in 1..Len(key) |-> CHOOSE a \in cols : RankOf(a) = k - 1] \o << >>

\* Math.ceil(n / numCols)
CeilDiv(n, numCols) == (n + numCols - 1) \div numCols

\* The body of encrypt after the key check: the grid is read column by
\* column in the order of the key, its empty cells skipped.
columnarEncrypt(plaintext, key) ==
  LET numCols == Len(key)
      order   == getColumnOrder(key)
      numRows == CeilDiv(Len(plaintext), numCols)
      cell(n) ==
        LET c   == order[((n - 1) \div numRows) + 1]
            r   == (n - 1) % numRows
            pos == r * numCols + c
        IN  IF pos < Len(plaintext) THEN plaintext[pos + 1] ELSE Undefined
      cells == [n \in 1..(numCols * numRows) |-> cell(n)] \o << >>
  IN  SelectSeq(cells, LAMBDA v : v # Undefined)

\* The body of decrypt after the key check
columnarDecrypt(ciphertext, key) ==
  IF Len(ciphertext) = 0 THEN << >>
  ELSE
    LET numCols == Len(key)
        numRows == CeilDiv(Len(ciphertext), numCols)
        order   == getColumnOrder(key)
        filledInLastRow ==
          IF Len(ciphertext) % numCols # 0 THEN Len(ciphertext) % numCols ELSE numCols
        longColumns == { order[k] : k \in 1..filledInLastRow }
        colLength(k) == IF order[k] \in longColumns THEN numRows ELSE numRows - 1
        \* index when the loop reaches turn k (from 1): the lengths before it
        indexAt(k) ==
          Cardinality({ j \in 1..(k - 1) : order[j] \in longColumns }) * numRows
            + Cardinality({ j \in 1..(k - 1) : order[j] \notin longColumns }) * (numRows - 1)
        turnOf(c) == CHOOSE k \in 1..numCols : order[k] = c
        columns == [c \in 0..(numCols - 1) |->
                      Slice(ciphertext, indexAt(turnOf(c)),
                            indexAt(turnOf(c)) + colLength(turnOf(c)))]
        cell(n) ==
          LET r == (n - 1) \div numCols
              c == (n - 1) % numCols
          IN  IF r < Len(columns[c]) THEN columns[c][r + 1] ELSE Undefined
        cells == [n \in 1..(numRows * numCols) |-> cell(n)] \o << >>
    IN  SelectSeq(cells, LAMBDA v : v # Undefined)

\* const encrypted = columnar.encrypt(plaintext, key)   (columnar.js:15-44)
ColCallEncrypt(plaintext, key) ==
  /\ col.phase = "off"
  /\ col' = IF Len(key) = 0
            THEN [col EXCEPT !.phase = "error", !.text = plaintext, !.key = key]
            ELSE [col EXCEPT !.phase = "encrypted", !.text = plaintext, !.key = key,
                             !.out = columnarEncrypt(plaintext, key)]
  /\ UNCHANGED << pc, call, result, locals, origin, memo, rf, probe >>

\* columnar.decrypt(encrypted, key)   (columnar.js:46-86)
ColCallDecrypt ==
  /\ col.phase = "encrypted"
  /\ col' = [col EXCEPT !.phase = "decrypted",
                        !.back = columnarDecrypt(col.out, col.key)]
  /\ UNCHANGED << pc, call, result, locals, origin, memo, rf, probe >>

NextColumnar ==
  \/ \E plaintext \in ColPlaintexts, key \in ColKeys : ColCallEncrypt(plaintext, key)
  \/ ColCallDecrypt

SpecColumnar == Init /\ [][NextColumnar]_vars

(***************************************************************************)
(* Rail fence, src/transposition/railfence.js                              *)
(***************************************************************************)
\* The largest number of rails passed to the rail fence cipher.
MaxRails == 12

\* Plaintexts: the prefixes of "HELLOWORLD"; U+1F600 "AB" and "A" U+1F600
\* "BC", whose U+1F600 is the surrogate pair D83D DE00; "A" followed by a
\* lone high surrogate and "B".
RfPlaintexts ==
  { Prefix(ColText, n) : n \in 0..Len(ColText) }
    \cup { << 55357, 56832, 65, 66 >>, << 65, 55357, 56832, 66, 67 >>,
           << 65, 55357, 66 >> }

IsHighSurrogate(u) == u \in 55296..56319
IsLowSurrogate(u) == u \in 56320..57343

\* The items of for (const char of str): the string iterator yields code
\* points, a high surrogate followed by a low one as a single item.
CodePoints(str) ==
  LET SecondOfPair(k) ==
        k > 1 /\ IsLowSurrogate(str[k]) /\ IsHighSurrogate(str[k - 1])
      item(k) ==
        IF SecondOfPair(k) THEN << >>
        ELSE IF k < Len(str) /\ IsHighSurrogate(str[k]) /\ IsLowSurrogate(str[k + 1])
        THEN << str[k], str[k + 1] >>
        ELSE << str[k] >>
      items == [k \in 1..Len(str) |-> item(k)] \o << >>
  IN  SelectSeq(items, LAMBDA c : c # << >>)

\* rail += direction; if (rail === 0 || rail === numRails - 1) direction =
\* -direction  (railfence.js:16-20, 40-43, 61-64)
ZigZag(r) ==
  LET rail == r.rail + r.direction
  IN  [r EXCEPT !.rail = rail,
                !.direction = IF rail = 0 \/ rail = r.numRails - 1
                              THEN 0 - r.direction ELSE r.direction]

\* railfence.encrypt(plaintext, numRails), lines 4-11
RfCallEncrypt(plaintext, numRails) ==
  /\ rf.phase = "off"
  /\ rf' = IF numRails < 2
           THEN [rf EXCEPT !.phase = "error", !.text = plaintext, !.numRails = numRails]
           ELSE IF Len(plaintext) = 0
           THEN [rf EXCEPT !.phase = "encrypted", !.text = plaintext,
                           !.numRails = numRails, !.out = << >>]
           ELSE [rf EXCEPT !.phase = "placing", !.text = plaintext,
                           !.numRails = numRails,
                           !.rails = [r \in 1..numRails |-> << >>],
                           !.rail = 0, !.direction = 1,
                           !.chars = CodePoints(plaintext)]
  /\ UNCHANGED << pc, call, result, locals, origin, memo, col, probe >>

\* railfence.js:14-21: one turn of the loop of encrypt; rails[rail] of a
\* rail outside the array is undefined and its push throws
RfPlace ==
  /\ rf.phase = "placing"
  /\ rf.chars # << >>
  /\ rf' = IF rf.rail \notin 0..(rf.numRails - 1)
           THEN [rf EXCEPT !.phase = "typeError"]
           ELSE ZigZag([rf EXCEPT !.rails[rf.rail + 1] = Append(@, Head(rf.chars)),
                                  !.chars = Tail(rf.chars)])
  /\ UNCHANGED << pc, call, result, locals, origin, memo, col, probe >>

\* railfence.js:24: return rails.flat().join('')
RfEncryptReturn ==
  /\ rf.phase = "placing"
  /\ rf.chars = << >>
  /\ rf' = [rf EXCEPT !.phase = "encrypted", !.out = JoinAll(JoinAll(rf.rails))]
  /\ UNCHANGED << pc, call, result, locals, origin, memo, col, probe >>

\* railfence.decrypt(encrypted, numRails) with what encrypt returned, lines
\* 27-36
RfCallDecrypt ==
  /\ rf.phase = "encrypted"
  /\ rf' = IF Len(rf.out) = 0
           THEN [rf EXCEPT !.phase = "decrypted", !.back = << >>]
           ELSE [rf EXCEPT !.phase = "counting",
                           !.railLengths = Fill(rf.numRails, 0),
                           !.rail = 0, !.direction = 1, !.i = 0]
  /\ UNCHANGED << pc, call, result, locals, origin, memo, col, probe >>

\* railfence.js:38-44: one turn of the counting loop; railLengths[rail]++ of
\* a rail outside the array stores NaN under that index and throws nothing
RfCount ==
  /\ rf.phase = "counting"
  /\ rf.i < Len(rf.out)
  /\ rf' = ZigZag([rf EXCEPT !.railLengths =
                               IF rf.rail \in 0..(rf.numRails - 1)
                               THEN [@ EXCEPT ![rf.rail + 1] = @ + 1] ELSE @,
                             !.i = rf.i + 1])
  /\ UNCHANGED << pc, call, result, locals, origin, memo, col, probe >>

RECURSIVE RfSum(_, _)
\* railLengths[0] + ... + railLengths[r - 1]
RfSum(railLengths, r) ==
  IF r = 0 THEN 0 ELSE RfSum(railLengths, r - 1) + railLengths[r]

\* railfence.js:47-57: the ciphertext is cut into the rails
RfSplit ==
  /\ rf.phase = "counting"
  /\ rf.i >= Len(rf.out)
  /\ rf' = [rf EXCEPT !.phase = "reading",
                      !.rails = [r \in 1..rf.numRails |->
                                   Slice(rf.out, RfSum(rf.railLengths, r - 1),
                                         RfSum(rf.railLengths, r))],
                      !.result = << >>, !.rail = 0, !.direction = 1, !.i = 0]
  /\ UNCHANGED << pc, call, result, locals, origin, memo, col, probe >>

\* railfence.js:59-65: one turn of the reading loop; shift() of an empty
\* rail gives undefined
RfRead ==
  /\ rf.phase = "reading"
  /\ rf.i < Len(rf.out)
  /\ rf' = IF rf.rail \notin 0..(rf.numRails - 1)
           THEN [rf EXCEPT !.phase = "typeError"]
           ELSE LET from == rf.rails[rf.rail + 1]
                IN  ZigZag([rf EXCEPT
                      !.result = Append(@, IF from = << >> THEN Undefined ELSE Head(from)),
                      !.rails[rf.rail + 1] = IF from = << >> THEN << >> ELSE Tail(from),
                      !.i = rf.i + 1])
  /\ UNCHANGED << pc, call, result, locals, origin, memo, col, probe >>

\* railfence.js:67: return result.join(''); join writes undefined as ''
RfDecryptReturn ==
  /\ rf.phase = "reading"
  /\ rf.i >= Len(rf.out)
  /\ rf' = [rf EXCEPT !.phase = "decrypted",
                      !.back = SelectSeq(rf.result, LAMBDA v : v # Undefined)]
  /\ UNCHANGED << pc, call, result, locals, origin, memo, col, probe >>

NextRailFence ==
  \/ \E plaintext \in RfPlaintexts, numRails \in 1..MaxRails :
       RfCallEncrypt(plaintext, numRails)
  \/ RfPlace
  \/ RfEncryptReturn
  \/ RfCallDecrypt
  \/ RfCount
  \/ RfSplit
  \/ RfRead
  \/ RfDecryptReturn

SpecRailFence == Init /\ [][NextRailFence]_vars

(***************************************************************************)
(* The block transforms on their own: desCore, encryptBlock, decryptBlock  *)
(***************************************************************************)
\* The families of round keys are numbered 0..MaxSeed.
MaxSeed == 3

\* 64-bit blocks: all zeros, all ones, 0123456789ABCDEF, "HELLO" 00 FF 08,
\* 8000000000000001.
DesBlocks ==
  { Fill(64, 0), Fill(64, 1),
    hexToBinary(<< 48, 49, 50, 51, 52, 53, 54, 55, 56, 57, 65, 66, 67, 68, 69, 70 >>),
    hexToBinary(bytesToHex(Prefix(BaseText, 8))),
    << 1 >> \o Fill(62, 0) \o << 1 >> }

\* Sixteen 48-bit round keys that no key schedule produced: family 0 is all
\* zeros, the others are bit patterns that change from round to round.
DesRoundKeys(seed) ==
  [k \in 1..16 |->
     [j \in 1..48 |-> IF seed = 0 THEN 0
                      ELSE ((j * (k + seed) + seed * k * k) % 7) % 2] \o << >>] \o << >>

\* 16-byte blocks: all zeros, all 255, sixteen bytes of BaseText, and
\* 00 11 22 .. FF.
AesBlocks ==
  { Fill(16, 0), Fill(16, 255), Prefix(BaseText, 16),
    [k \in 1..16 |-> 17 * (k - 1)] \o << >> }

\* Eleven 16-byte round keys that no key expansion produced.
AesRoundKeys(seed) ==
  [r \in 1..11 |-> [j \in 1..16 |-> (r * 17 + j * seed * 13 + seed * 101) % 256] \o << >>] \o << >>

\* desCore(block, keys), lines 217-223
DesCoreEnter(block, keys) ==
  /\ call' = [engine |-> "des", op |-> "desCore", text |-> block, key |-> << >>]
  /\ result' = NoResult
  /\ roundKeys' = keys
  /\ work' = [NoWork EXCEPT !.L = CoreHalves(block).L, !.R = CoreHalves(block).R]
  /\ round' = 0
  /\ pc' = "round"
  /\ UNCHANGED << sched, data, acc, i, memo, aside >>

\* desCore(B, keys) for a block and round keys of the caller's choice
DesCoreCall(block, keys) ==
  /\ pc = "idle"
  /\ DesCoreEnter(block, keys)
  /\ origin' = NoNote

\* desCore, lines 235-238: the block is returned
DesCoreReturn ==
  /\ Running("des", "round")
  /\ call.op = "desCore"
  /\ round >= 16
  /\ result' = Returned(CoreOutput(work))
  /\ pc' = "done"
  /\ UNCHANGED << call, locals, origin, memo, aside >>

\* desCore(out, keys.reverse()) on what desCore has just returned, as decrypt
\* does (des.js:324, 335)
DesCoreCallBack ==
  /\ pc = "done"
  /\ call.op = "desCore"
  /\ origin.kind = "none"
  /\ DesCoreEnter(result.value, Reverse(roundKeys))
  /\ origin' = [NoNote EXCEPT !.kind = "block", !.engine = "des",
                              !.text = call.text, !.value = result.value]

\* encryptBlock(block, roundKeys) or decryptBlock(block, roundKeys), lines
\* 275-276 and 298-299; op is "encrypt" or "decrypt"
AesBlockEnter(op, block, keys) ==
  /\ call' = [engine |-> "aes", op |-> op, text |-> block, key |-> << >>]
  /\ result' = NoResult
  /\ roundKeys' = keys
  /\ work' = [NoWork EXCEPT !.state = bytesToState(block)]
  /\ round' = IF op = "encrypt" THEN 0 ELSE 10
  /\ pc' = "addRoundKey"
  /\ UNCHANGED << sched, data, acc, i, memo, aside >>

\* A block transform for a block and round keys of the caller's choice
AesBlockCall(op, block, keys) ==
  /\ pc = "idle"
  /\ AesBlockEnter(op, block, keys)
  /\ origin' = NoNote

\* part_001:294 and 317: return stateToBytes(state)
AesBlockReturn ==
  /\ Running("aes", "store")
  /\ result' = Returned(stateToBytes(work.state))
  /\ pc' = "done"
  /\ UNCHANGED << call, locals, origin, memo, aside >>

\* The other block transform on what the first has just returned, under the
\* same round keys
AesBlockCallBack ==
  /\ pc = "done"
  /\ call.engine = "aes"
  /\ origin.kind = "none"
  /\ AesBlockEnter(IF call.op = "encrypt" THEN "decrypt" ELSE "encrypt",
                   result.value, roundKeys)
  /\ origin' = [NoNote EXCEPT !.kind = "block", !.engine = "aes",
                              !.text = call.text, !.value = result.value]

NextBlock ==
  \/ \E block \in DesBlocks, seed \in 0..MaxSeed : DesCoreCall(block, DesRoundKeys(seed))
  \/ DesRound
  \/ DesCoreReturn
  \/ DesCoreCallBack
  \/ \E op \in {"encrypt", "decrypt"}, block \in AesBlocks, seed \in 0..MaxSeed :
       AesBlockCall(op, block, AesRoundKeys(seed))
  \/ AesAddRoundKey
  \/ AesSubBytes
  \/ AesShiftRows
  \/ AesMixColumns
  \/ AesInvShiftRows
  \/ AesInvSubBytes
  \/ AesInvMixColumns
  \/ AesBlockReturn
  \/ AesBlockCallBack

SpecBlock == Init /\ [][NextBlock]_vars

(***************************************************************************)
(* The key schedule on its own, and keys that differ in their parity bits  *)
(***************************************************************************)
\* "133457799BBCDFF1" with every parity bit flipped: "123556789ABDDEF0"
DesKeyATwin ==
  << 49, 50, 51, 53, 53, 54, 55, 56, 57, 65, 66, 68, 68, 69, 70, 48 >>
\* "133457799BBCDFF1" with bit 64 flipped: "133457799BBCDFF0"
DesKeyALast ==
  << 49, 51, 51, 52, 53, 55, 55, 57, 57, 66, 66, 67, 68, 70, 70, 48 >>
\* "133457799BBCDFF1" with bit 63, not a parity bit, flipped: "133457799BBCDFF3"
DesKeyAOther ==
  << 49, 51, 51, 52, 53, 55, 55, 57, 57, 66, 66, 67, 68, 70, 70, 51 >>

ParityKeys == { DesKeyA, DesKeyATwin, DesKeyALast, DesKeyAOther }

\* The keys given to generateKeys: the four above, "0e329232ea6d0d73",
\* "0000000000000000", "FFFFFFFFFFFFFFFF", "0123456789ABCDEF".
ScheduleKeys ==
  ParityKeys \cup
  { DesKeyB, Fill(16, 48), Fill(16, 70),
    << 48, 49, 50, 51, 52, 53, 54, 55, 56, 57, 65, 66, 67, 68, 69, 70 >> }

\* "HELLO"
ParityTexts == { Prefix(BaseText, 5) }

\* generateKeys(key), des.js:168: the call with its locals new
CallGenerateKeys(key) ==
  /\ pc \in {"idle", "done"}
  /\ call' = [engine |-> "des", op |-> "generateKeys", text |-> << >>, key |-> key]
  /\ result' = NoResult
  /\ sched' = NoSched
  /\ roundKeys' = << >>
  /\ data' = << >>
  /\ acc' = << >>
  /\ i' = 0
  /\ work' = NoWork
  /\ round' = 0
  /\ pc' = "schedule"
  /\ origin' = NoNote
  /\ UNCHANGED << memo, aside >>

\* des.js:191: return roundKeys
GenerateKeysReturn ==
  /\ Running("des", "keyRound")
  /\ call.op = "generateKeys"
  /\ round >= 16
  /\ result' = Returned(roundKeys)
  /\ pc' = "done"
  /\ UNCHANGED << call, locals, origin, memo, aside >>

\* const keys = generateKeys(key) (des.js:291): the caller keeps the round
\* keys with the key they came from
RememberKeys ==
  /\ pc = "done"
  /\ call.op = "generateKeys"
  /\ memo.kind = "none"
  /\ memo' = [NoNote EXCEPT !.kind = "keys", !.engine = "des", !.key = call.key,
                            !.value = result.value]
  /\ UNCHANGED << pc, call, result, locals, origin, aside >>

\* des.decrypt(encrypted, key) on the ciphertext the caller has kept, under
\* a key of its choice
CallDecryptOfRemembered(key) ==
  /\ memo.kind = "remembered"
  /\ Enter(memo.engine, "decrypt", memo.value, key)
  /\ origin' = [NoNote EXCEPT !.kind = "encrypted", !.engine = memo.engine,
                              !.text = memo.text, !.key = memo.key,
                              !.value = memo.value]

NextKeys ==
  \/ \E key \in ScheduleKeys : CallGenerateKeys(key)
  \/ GenerateKeysReturn
  \/ RememberKeys
  \/ \E plaintext \in ParityTexts, key \in ParityKeys : CallEncrypt("des", plaintext, key)
  \/ Remember
  \/ \E key \in ParityKeys : CallDecryptOfRemembered(key)
  \/ DesStep

SpecKeys == Init /\ [][NextKeys]_vars

(***************************************************************************)
(* permute with the tables IP and FP, applied to 64-bit strings            *)
(***************************************************************************)
\* The 64-bit strings with a single 1, and the blocks of DesBlocks.
PermuteInputs ==
  { [j \in 1..64 |-> IF j = k THEN 1 ELSE 0] \o << >> : k \in 1..64 } \cup DesBlocks

\* permute(permute(x, IP), FP), as desCore does around its rounds (des.js:219, 238)
ProbeIPThenFP(x) ==
  /\ probe.fn = "none"
  /\ probe' = [fn |-> "IP;FP", arg |-> x, mid |-> permute(x, IP),
               out |-> permute(permute(x, IP), FP)]
  /\ UNCHANGED << pc, call, result, locals, origin, memo, col, rf >>

\* permute(permute(x, FP), IP)
ProbeFPThenIP(x) ==
  /\ probe.fn = "none"
  /\ probe' = [fn |-> "FP;IP", arg |-> x, mid |-> permute(x, FP),
               out |-> permute(permute(x, FP), IP)]
  /\ UNCHANGED << pc, call, result, locals, origin, memo, col, rf >>

NextPermute ==
  \/ \E x \in PermuteInputs : ProbeIPThenFP(x)
  \/ \E x \in PermuteInputs : ProbeFPThenIP(x)

SpecPermute == Init /\ [][NextPermute]_vars

(***************************************************************************)
(* subBytes and invSubBytes, applied to states that hold every byte        *)
(***************************************************************************)
\* The state of the sixteen bytes b, b + 16, b + 32, ... (mod 256)
SBoxState(b) == bytesToState([k \in 1..16 |-> (b + 16 * (k - 1)) % 256] \o << >>)

\* invSubBytes(subBytes(state)), part_001:98-115
ProbeSubBytes(state) ==
  /\ probe.fn = "none"
  /\ probe' = [fn |-> "subBytes;invSubBytes", arg |-> state, mid |-> subBytes(state),
               out |-> invSubBytes(subBytes(state))]
  /\ UNCHANGED << pc, call, result, locals, origin, memo, col, rf >>

\* subBytes(invSubBytes(state))
ProbeInvSubBytes(state) ==
  /\ probe.fn = "none"
  /\ probe' = [fn |-> "invSubBytes;subBytes", arg |-> state, mid |-> invSubBytes(state),
               out |-> subBytes(invSubBytes(state))]
  /\ UNCHANGED << pc, call, result, locals, origin, memo, col, rf >>

NextSBox ==
  \/ \E b \in 0..255 : ProbeSubBytes(SBoxState(b))
  \/ \E b \in 0..255 : ProbeInvSubBytes(SBoxState(b))

SpecSBox == Init /\ [][NextSBox]_vars

(***************************************************************************)
(* gmul, mixColumns and invMixColumns, applied to bytes and states of bytes *)
(***************************************************************************)
\* The state whose column c holds v in row c and 0 elsewhere
DiagonalState(v) ==
  [c \in 1..4 |-> [r \in 1..4 |-> IF r = c THEN v ELSE 0] \o << >>] \o << >>

MixStates ==
  { DiagonalState(v) : v \in 0..255 } \cup { SBoxState(b) : b \in 0..255 }
    \cup { bytesToState(block) : block \in AesBlocks }
    \cup { bytesToState(<< 219, 19, 83, 69, 242, 10, 34, 92, 1, 1, 1, 1, 198, 198, 198, 198 >>) }

\* gmul(a, b) for two bytes a and b, part_001:178-187
ProbeGmul ==
  /\ probe.fn = "none"
  /\ \E a \in 0..255, b \in 0..255 :
       probe' = [fn |-> "gmul", arg |-> << a, b >>, mid |-> << xtime(a) >>,
                 out |-> << gmul(a, b) >>]
  /\ UNCHANGED << pc, call, result, locals, origin, memo, col, rf >>

\* invMixColumns(mixColumns(state)), part_001:191-212
ProbeMixColumns(state) ==
  /\ probe.fn = "none"
  /\ probe' = [fn |-> "mixColumns;invMixColumns", arg |-> state, mid |-> mixColumns(state),
               out |-> invMixColumns(mixColumns(state))]
  /\ UNCHANGED << pc, call, result, locals, origin, memo, col, rf >>

\* mixColumns(invMixColumns(state))
ProbeInvMixColumns(state) ==
  /\ probe.fn = "none"
  /\ probe' = [fn |-> "invMixColumns;mixColumns", arg |-> state, mid |-> invMixColumns(state),
               out |-> mixColumns(invMixColumns(state))]
  /\ UNCHANGED << pc, call, result, locals, origin, memo, col, rf >>

NextMix ==
  \/ \E state \in MixStates : ProbeMixColumns(state)
  \/ \E state \in MixStates : ProbeInvMixColumns(state)

SpecMix == Init /\ [][NextMix]_vars

NextGF ==
  \/ ProbeGmul
  \/ NextMix

SpecGF == Init /\ [][NextGF]_vars

(***************************************************************************)
(* keyExpansion called on its own, part_001:236-272                        *)
(***************************************************************************)
\* "2b7e...4f3c", "0001...0E0F", thirty-two 0, thirty-two F, thirty-two f
ExpansionKeys == { AesKeyA, AesKeyB, Fill(32, 48), Fill(32, 70), Fill(32, 102) }

\* keyExpansion(key), part_001:236: the call with its locals new
CallKeyExpansion(key) ==
  /\ pc \in {"idle", "done"}
  /\ call' = [engine |-> "aes", op |-> "keyExpansion", text |-> << >>, key |-> key]
  /\ result' = NoResult
  /\ sched' = NoSched
  /\ roundKeys' = << >>
  /\ data' = << >>
  /\ acc' = << >>
  /\ i' = 0
  /\ work' = NoWork
  /\ round' = 0
  /\ pc' = "schedule"
  /\ origin' = NoNote
  /\ UNCHANGED << memo, aside >>

\* part_001:262-271: the words are grouped and returned
KeyExpansionReturn ==
  /\ Running("aes", "keyWord")
  /\ call.op = "keyExpansion"
  /\ round >= 44
  /\ roundKeys' = WordsToRoundKeys(sched.w)
  /\ result' = Returned(WordsToRoundKeys(sched.w))
  /\ pc' = "done"
  /\ UNCHANGED << call, sched, data, acc, i, work, round, origin, memo, aside >>

NextExpansion ==
  \/ \E key \in ExpansionKeys : CallKeyExpansion(key)
  \/ AesKeyWords
  \/ AesKeyWord
  \/ KeyExpansionReturn

SpecExpansion == Init /\ [][NextExpansion]_vars

(***************************************************************************)
(* A caller that keeps the result of one call and calls again with the     *)
(* hexadecimal letters of its arguments in either case                     *)
(***************************************************************************)
\* s.toUpperCase() and s.toLowerCase() of a string of hexadecimal characters
UpperCased(str) == [k \in 1..Len(str) |-> toUpperCase(str[k])] \o << >>
LowerCased(str) == [k \in 1..Len(str) |-> IF str[k] \in 65..90 THEN str[k] + 32 ELSE str[k]] \o << >>

\* "0e329232ea6d0d73" and "2b7e151628aed2a6abf7158809cf4f3c" as written, in
\* upper case, and with their first half only in upper case
CaseKeys ==
  { DesKeyB, UpperCased(DesKeyB), UpperCased(SubSeq(DesKeyB, 1, 8)) \o SubSeq(DesKeyB, 9, 16),
    AesKeyA, UpperCased(AesKeyA) }

\* "HELLO"
CasePlaintexts == { Prefix(BaseText, 5) }

\* "3925841D02DC09FBDC118597196A0B32": two 8-byte blocks or one 16-byte block
CaseBlock ==
  << 51, 57, 50, 53, 56, 52, 49, 68, 48, 50, 68, 67, 48, 57, 70, 66,
     68, 67, 49, 49, 56, 53, 57, 55, 49, 57, 54, 65, 48, 66, 51, 50 >>

CaseCiphertexts ==
  { CaseBlock, LowerCased(CaseBlock), LowerCased(SubSeq(CaseBlock, 1, 16)) \o SubSeq(CaseBlock, 17, 32) }

\* const first = engine.encrypt(...) or engine.decrypt(...): the caller keeps
\* what the call returned or threw, with its arguments
RememberCall ==
  /\ pc = "done"
  /\ call.op \in {"encrypt", "decrypt"}
  /\ memo.kind = "none"
  /\ memo' = [kind |-> call.op, engine |-> call.engine, text |-> call.text,
              key |-> call.key, value |-> result, since |-> 0]
  /\ UNCHANGED << pc, call, result, locals, origin, aside >>

\* After a kept call, the same engine and operation are called again.
CallerCase ==
  \/ \E engine \in Engines, plaintext \in CasePlaintexts, key \in CaseKeys :
       /\ memo.kind \in {"none", "encrypt"}
       /\ memo.kind = "encrypt" => memo.engine = engine
       /\ CallEncrypt(engine, plaintext, key)
  \/ \E engine \in Engines, ciphertext \in CaseCiphertexts, key \in CaseKeys :
       /\ memo.kind \in {"none", "decrypt"}
       /\ memo.kind = "decrypt" => memo.engine = engine
       /\ CallDecrypt(engine, ciphertext, key)
  \/ RememberCall

NextCase == CallerCase \/ DesStep \/ AesStep

SpecCase == Init /\ [][NextCase]_vars

(***************************************************************************)
(* Elliptic curves, src/asymmetric/ecc.js                                  *)
(***************************************************************************)
\* JavaScript's null, the coordinates of the point at infinity.
Null == -2

\* a % m of BigInt: the remainder has the sign of a
Rem(a, m) == IF a >= 0 THEN a % m ELSE 0 - ((0 - a) % m)

RECURSIVE EuclidLoop(_, _, _, _)
\* The while loop of modInverse (ecc.js:15-19); the operands of / are not
\* negative there
EuclidLoop(old_r, r, old_s, s) ==
  IF r # 0
  THEN LET quotient == old_r \div r
       IN  EuclidLoop(r, old_r - quotient * r, s, old_s - quotient * s)
  ELSE << old_r, old_s >>

\* modInverse(a, p)
modInverse(a, p) ==
  LET a1  == Rem(Rem(a, p) + p, p)
      end == EuclidLoop(a1, p, 1, 0)
  IN  IF end[1] # 1 THEN Null ELSE Rem(Rem(end[2], p) + p, p)

\* const INFINITY = { x: null, y: null }
INFINITY == [x |-> Null, y |-> Null]

\* isInfinity(P)
isInfinity(pt) == pt.x = Null /\ pt.y = Null

\* curve.isOnCurve(P)
isOnCurve(curve, pt) ==
  IF isInfinity(pt) THEN TRUE
  ELSE LET left  == Rem(pt.y * pt.y, curve.p)
           right == Rem((pt.x * pt.x * pt.x) + (curve.a * pt.x) + curve.b, curve.p)
       IN  Rem(Rem(left - right, curve.p) + curve.p, curve.p) = 0

\* add, lines 121-128: the new point from lambda
AddWithLambda(curve, pt, qt, lambda) ==
  LET x3 == Rem(lambda * lambda - pt.x - qt.x, curve.p)
      y3 == Rem(lambda * (pt.x - x3) - pt.y, curve.p)
  IN  [x |-> Rem(Rem(x3, curve.p) + curve.p, curve.p),
       y |-> Rem(Rem(y3, curve.p) + curve.p, curve.p)]

\* curve.add(P, Q)
add(curve, pt, qt) ==
  IF isInfinity(pt) THEN qt
  ELSE IF isInfinity(qt) THEN pt
  ELSE IF pt.x = qt.x /\ Rem(pt.y + qt.y, curve.p) = 0 THEN INFINITY
  ELSE IF pt.x = qt.x /\ pt.y = qt.y
  THEN LET numerator      == Rem(3 * pt.x * pt.x + curve.a, curve.p)
           denominator    == Rem(2 * pt.y, curve.p)
           denominatorInv == modInverse(denominator, curve.p)
       IN  IF denominatorInv = Null THEN INFINITY
           ELSE AddWithLambda(curve, pt, qt, Rem(numerator * denominatorInv, curve.p))
  ELSE LET numerator      == Rem(Rem(qt.y - pt.y, curve.p) + curve.p, curve.p)
           denominator    == Rem(Rem(qt.x - pt.x, curve.p) + curve.p, curve.p)
           denominatorInv == modInverse(denominator, curve.p)
       IN  IF denominatorInv = Null THEN INFINITY
           ELSE AddWithLambda(curve, pt, qt, Rem(numerator * denominatorInv, curve.p))

RECURSIVE MultiplyLoop(_, _, _, _)
\* The while loop of multiply (ecc.js:148-154), k > 0 being halved
MultiplyLoop(curve, k, sum, addend) ==
  IF k > 0
  THEN MultiplyLoop(curve, k \div 2,
                    IF k % 2 = 1 THEN add(curve, sum, addend) ELSE sum,
                    add(curve, addend, addend))
  ELSE sum

\* curve.multiply(k, P)
multiply(curve, k, pt) ==
  IF k = 0 \/ isInfinity(pt) THEN INFINITY
  ELSE IF k < 0
       THEN MultiplyLoop(curve, 0 - k, INFINITY,
                         [x |-> pt.x, y |-> Rem(curve.p - pt.y, curve.p)])
       ELSE MultiplyLoop(curve, k, INFINITY, [x |-> pt.x, y |-> pt.y])

\* The predefined curves (ecc.js:171-197)
CURVE_SMALL == [a |-> 1, b |-> 1, p |-> 167, G |-> [x |-> 2, y |-> 41], n |-> 144]
CURVE_TINY == [a |-> 1, b |-> 6, p |-> 11, G |-> [x |-> 2, y |-> 7], n |-> 7]
CURVE_SECP_LIKE == [a |-> 0, b |-> 7, p |-> 17, G |-> [x |-> 15, y |-> 13], n |-> 18]

Curves == { CURVE_SMALL, CURVE_TINY, CURVE_SECP_LIKE }

\* The largest scalar multiply is called with.
MaxScalar == 144

\* curve.isOnCurve(curve.G)
ProbeIsOnCurve ==
  /\ probe.fn = "none"
  /\ \E curve \in Curves :
       probe' = [fn |-> "isOnCurve", arg |-> << curve, curve.G >>, mid |-> << >>,
                 out |-> << isOnCurve(curve, curve.G) >>]
  /\ UNCHANGED << pc, call, result, locals, origin, memo, col, rf >>

\* curve.multiply(k, curve.G)
ProbeMultiply ==
  /\ probe.fn = "none"
  /\ \E curve \in Curves, k \in 0..MaxScalar :
       probe' = [fn |-> "multiply", arg |-> << curve, k >>, mid |-> << >>,
                 out |-> << multiply(curve, k, curve.G) >>]
  /\ UNCHANGED << pc, call, result, locals, origin, memo, col, rf >>

NextCurve == ProbeIsOnCurve \/ ProbeMultiply

SpecCurve == Init /\ [][NextCurve]_vars

(***************************************************************************)
(* encrypt on the blocks of the published examples, and decrypt of what it *)
(* returned                                                                *)
(***************************************************************************)
\* The string of the character codes 01 23 45 67 89 AB CD EF
VectorTextDes == << 1, 35, 69, 103, 137, 171, 205, 239 >>

\* The string of the character codes 32 43 f6 a8 88 5a 30 8d 31 31 98 a2 e0
\* 37 07 34
VectorTextAes ==
  << 50, 67, 246, 168, 136, 90, 48, 141, 49, 49, 152, 162, 224, 55, 7, 52 >>

VectorPlaintexts == { VectorTextDes, VectorTextAes, << >> }
VectorKeys == { DesKeyA, AesKeyA }

NextVectors ==
  \/ \E engine \in Engines, plaintext \in VectorPlaintexts, key \in VectorKeys :
       CallEncrypt(engine, plaintext, key)
  \/ CallDecryptOfResult
  \/ DesStep
  \/ AesStep

SpecVectors == Init /\ [][NextVectors]_vars

(***************************************************************************)
(* A caller that encrypts again what decrypt returned                      *)
(***************************************************************************)
\* "", "HELLO", eight bytes ending in 1, the example blocks, and 15 and 16
\* bytes of BaseText
ReversePlaintexts ==
  { << >>, Prefix(BaseText, 5), << 72, 69, 76, 76, 79, 7, 3, 1 >>, VectorTextDes,
    VectorTextAes, Prefix(BaseText, 15), Prefix(BaseText, 16) }

\* engine.decrypt(encrypted.toLowerCase(), key) with the value encrypt has
\* just returned
CallDecryptOfLowerCased ==
  /\ pc = "done"
  /\ call.op = "encrypt"
  /\ result.kind = "value"
  /\ Enter(call.engine, "decrypt", LowerCased(result.value), call.key)
  /\ origin' = NoNote

\* engine.encrypt(decrypted, key) with the value decrypt has just returned;
\* the caller keeps the ciphertext, and the bytes decrypt took it to
CallEncryptOfDecrypted ==
  /\ pc = "done"
  /\ call.op = "decrypt"
  /\ result.kind = "value"
  /\ Enter(call.engine, "encrypt", result.value, call.key)
  /\ origin' = [NoNote EXCEPT !.kind = "decrypted", !.engine = call.engine,
                              !.text = call.text, !.key = call.key, !.value = acc]

CallerReverse ==
  \/ \E engine \in Engines, plaintext \in ReversePlaintexts, key \in VectorKeys :
       CallEncrypt(engine, plaintext, key)
  \/ \E engine \in Engines, ciphertext \in CaseCiphertexts, key \in VectorKeys :
       CallDecrypt(engine, ciphertext, key)
  \/ CallDecryptOfResult
  \/ CallDecryptOfLowerCased
  \/ CallDecryptOfTruncated
  \/ CallEncryptOfDecrypted

NextReverse == CallerReverse \/ DesStep \/ AesStep

SpecReverse == Init /\ [][NextReverse]_vars

(***************************************************************************)
(* What the properties below speak of                                      *)
(***************************************************************************)
HexDigits == (48..57) \cup (65..70) \cup (97..102)
UpperHexDigits == (48..57) \cup (65..70)

BlockSize(engine) == IF engine = "des" THEN 8 ELSE 16
KeyChars(engine) == IF engine = "des" THEN 16 ELSE 32
KeyMessage(engine) == IF engine = "des" THEN DesKeyMessage ELSE AesKeyMessage
CiphertextMessage(engine) ==
  IF engine = "des" THEN DesCiphertextMessage ELSE AesCiphertextMessage

\* The key is exactly 16 (DES) or 32 (AES) characters, all of 0-9, a-f, A-F.
WellFormedKey(engine, key) ==
  /\ Len(key) = KeyChars(engine)
  /\ \A k \in 1..Len(key) : key[k] \in HexDigits

\* The ciphertext is not empty, all of hex digits, a whole number of blocks.
WellFormedCiphertext(engine, ciphertext) ==
  /\ Len(ciphertext) > 0
  /\ \A k \in 1..Len(ciphertext) : ciphertext[k] \in HexDigits
  /\ Len(ciphertext) % (2 * BlockSize(engine)) = 0

\* Every character of the string has a code point of at most 255.
SingleByte(str) == \A k \in 1..Len(str) : str[k] \in 0..255

\* The call has returned or thrown.
Done(engine, op) == pc = "done" /\ call.engine = engine /\ call.op = op

\* decrypt has finished on the ciphertext that encrypt returned for
\* origin.text under the same key.
RoundTripDone(engine) ==
  /\ Done(engine, "decrypt")
  /\ origin.kind = "encrypted"
  /\ origin.engine = engine

\* Nothing of a call has run beyond its checks: no round key, no block.
NothingDerived ==
  /\ sched = NoSched
  /\ roundKeys = << >>
  /\ data = << >>
  /\ acc = << >>
  /\ work = NoWork
  /\ i = 0

(***************************************************************************)
(* C1                                                                      *)
(***************************************************************************)
\* C1: for every plaintext P of single-byte characters and every key K of 16
\* hex characters, DES decrypt(encrypt(P, K), K) returns P, the empty string,
\* lengths that are a multiple of 8 and plaintexts of several blocks included.
C1_DesRoundTrip ==
  (RoundTripDone("des") /\ SingleByte(origin.text))
    => result = Returned(origin.text)

\* A two-block plaintext whose length is a multiple of 8 has come back.
C1_Witness ==
  /\ RoundTripDone("des")
  /\ Len(origin.text) = 16
  /\ SingleByte(origin.text)
  /\ Len(origin.value) = 48
  /\ result = Returned(origin.text)

(***************************************************************************)
(* C2                                                                      *)
(***************************************************************************)
\* C2: for every plaintext P of single-byte characters and every key K of 32
\* hex characters, AES decrypt(encrypt(P, K), K) returns P, a length that is
\* a multiple of 16 included.
C2_AesRoundTrip ==
  (RoundTripDone("aes") /\ SingleByte(origin.text))
    => result = Returned(origin.text)

\* A 16-character plaintext, two blocks once padded, has come back.
C2_Witness ==
  /\ RoundTripDone("aes")
  /\ Len(origin.text) = 16
  /\ SingleByte(origin.text)
  /\ Len(origin.value) = 64
  /\ result = Returned(origin.text)

(***************************************************************************)
(* C3                                                                      *)
(***************************************************************************)
\* C3: in both engines encrypt and decrypt end with the key-format error
\* exactly when the key is not 16 (DES) or 32 (AES) hex characters, and they
\* do so before any round key is derived and before any block is processed;
\* no step after the key check runs under such a key.
C3_KeyFormatRejection ==
  /\ pc = "done" =>
       (result = Thrown(KeyMessage(call.engine))
          <=> ~WellFormedKey(call.engine, call.key))
  /\ (pc # "idle" /\ ~WellFormedKey(call.engine, call.key)) =>
       (pc \in {"keyCheck", "done"} /\ NothingDerived)

\* AES decrypt has rejected the key "00" with nothing derived.
C3_Witness ==
  /\ Done("aes", "decrypt")
  /\ call.key = <<48, 48>>
  /\ result = Thrown(AesKeyMessage)
  /\ NothingDerived

(***************************************************************************)
(* C4                                                                      *)
(***************************************************************************)
\* C4: in both engines decrypt with a well-formed key ends with the
\* ciphertext-format error when the ciphertext has a non-hex character or a
\* length that is not a multiple of 16 (DES) or 32 (AES) hex characters, and
\* it does so before any block is processed.
C4_CiphertextFormatRejection ==
  ( /\ call.op = "decrypt"
    /\ WellFormedKey(call.engine, call.key)
    /\ \/ \E k \in 1..Len(call.text) : call.text[k] \notin HexDigits
       \/ Len(call.text) % (2 * BlockSize(call.engine)) # 0 )
  => /\ pc \in {"keyCheck", "ciphertextCheck", "done"}
     /\ pc = "done" => result = Thrown(CiphertextMessage(call.engine))
     /\ NothingDerived

\* DES decrypt has rejected "AB", all hex but not a whole block, under a
\* well-formed key.
C4_Witness ==
  /\ Done("des", "decrypt")
  /\ call.text = <<65, 66>>
  /\ WellFormedKey("des", call.key)
  /\ result = Thrown(DesCiphertextMessage)

(***************************************************************************)
(* C5                                                                      *)
(***************************************************************************)
\* encrypt has returned for the engine, plaintext and key of the call whose
\* result the caller has kept.
SameCallAgain ==
  /\ pc = "done"
  /\ call.op = "encrypt"
  /\ memo.kind = "remembered"
  /\ call.engine = memo.engine
  /\ call.text = memo.text
  /\ call.key = memo.key

\* C5: encrypt is deterministic and independent of history: a call with the
\* engine, plaintext and key of an earlier call returns the very ciphertext
\* the earlier call returned, whatever calls, failing ones included, were
\* made before or in between.
C5_EncryptDeterministic ==
  SameCallAgain => result = Returned(memo.value)

\* AES encrypt has returned a second time for the same arguments, with other
\* calls made in between.
C5_Witness ==
  /\ SameCallAgain
  /\ call.engine = "aes"
  /\ memo.since = MaxSince
  /\ result = Returned(memo.value)

(***************************************************************************)
(* C6                                                                      *)
(***************************************************************************)
\* Block j (from 0) of a plaintext and of a ciphertext in hex.
TextBlock(engine, text, j) ==
  Slice(text, BlockSize(engine) * j, BlockSize(engine) * (j + 1))
HexBlock(engine, hex, j) ==
  Slice(hex, 2 * BlockSize(engine) * j, 2 * BlockSize(engine) * (j + 1))

\* The block indices of a padded plaintext of n characters.
BlocksOf(engine, n) == 0..(n \div BlockSize(engine))

\* The blocks in which two plaintexts of equal length differ.
DifferingBlocks(engine, a, b) ==
  { j \in BlocksOf(engine, Len(a)) : TextBlock(engine, a, j) # TextBlock(engine, b, j) }

\* encrypt has returned for a plaintext of the length of the remembered one,
\* under the same engine and key, and the two differ in one block only.
OneBlockApart ==
  /\ pc = "done"
  /\ call.op = "encrypt"
  /\ result.kind = "value"
  /\ memo.kind = "remembered"
  /\ call.engine = memo.engine
  /\ call.key = memo.key
  /\ Len(call.text) = Len(memo.text)
  /\ SingleByte(call.text)
  /\ SingleByte(memo.text)
  /\ Cardinality(DifferingBlocks(call.engine, call.text, memo.text)) = 1

\* C6: blocks are processed independently: for two plaintexts of equal
\* length that differ only in the bytes of block i, encrypted under the same
\* key, the ciphertexts are identical in every other block and differ in
\* block i.
C6_BlockIndependence ==
  OneBlockApart =>
    /\ Len(result.value) = Len(memo.value)
    /\ \A j \in BlocksOf(call.engine, Len(call.text)) :
         (HexBlock(call.engine, result.value, j) = HexBlock(call.engine, memo.value, j))
           <=> j \notin DifferingBlocks(call.engine, call.text, memo.text)

\* Two AES ciphertexts of plaintexts that differ in the second block only:
\* the first blocks are equal, the second are not.
C6_Witness ==
  /\ OneBlockApart
  /\ call.engine = "aes"
  /\ DifferingBlocks("aes", call.text, memo.text) = {1}
  /\ HexBlock("aes", result.value, 0) = HexBlock("aes", memo.value, 0)
  /\ HexBlock("aes", result.value, 1) # HexBlock("aes", memo.value, 1)

(***************************************************************************)
(* C7                                                                      *)
(***************************************************************************)
\* C7: for a plaintext of n single-byte characters and a well-formed key,
\* encrypt returns a string of the characters 0-9 and A-F only, of exactly
\* 2 * bs * (floor(n / bs) + 1) characters with bs = 8 (DES) or 16 (AES),
\* and the string passes the ciphertext-format check of decrypt.
C7_CiphertextShape ==
  ( /\ pc = "done"
    /\ call.op = "encrypt"
    /\ WellFormedKey(call.engine, call.key)
    /\ SingleByte(call.text) )
  => LET bs == BlockSize(call.engine)
         n  == Len(call.text)
     IN  /\ result.kind = "value"
         /\ \A k \in 1..Len(result.value) : result.value[k] \in UpperHexDigits
         /\ Len(result.value) = 2 * bs * ((n \div bs) + 1)
         /\ HexNonEmpty(result.value)
         /\ Len(result.value) % (2 * bs) = 0

\* AES encrypt of a 16-character plaintext has returned 64 characters.
C7_Witness ==
  /\ Done("aes", "encrypt")
  /\ WellFormedKey("aes", call.key)
  /\ Len(call.text) = 16
  /\ SingleByte(call.text)
  /\ result.kind = "value"
  /\ Len(result.value) = 64

(***************************************************************************)
(* C8                                                                      *)
(***************************************************************************)
\* C8: decrypt with a well-formed key and a well-formed ciphertext never
\* ends with an error: with n the last decrypted byte, it returns the
\* decrypted bytes without their last n when 1 <= n <= bs, and all of the
\* decrypted bytes otherwise (bs = 8 for DES, 16 for AES).
C8_LenientUnpadding ==
  ( /\ pc = "done"
    /\ call.op = "decrypt"
    /\ WellFormedKey(call.engine, call.key)
    /\ WellFormedCiphertext(call.engine, call.text) )
  => LET bs == BlockSize(call.engine)
         n  == acc[Len(acc)]
     IN  /\ Len(acc) = Len(call.text) \div 2
         /\ result.kind = "value"
         /\ result.value = IF 1 <= n /\ n <= bs
                           THEN SubSeq(acc, 1, Len(acc) - n)
                           ELSE acc

\* AES decrypt has returned all 16 decrypted bytes, the last of them being 0.
C8_Witness ==
  /\ Done("aes", "decrypt")
  /\ Len(acc) = 16
  /\ acc[16] = 0
  /\ result = Returned(acc)

(***************************************************************************)
(* C9                                                                      *)
(***************************************************************************)
\* C9: for a plaintext P with a character above 255 and a well-formed key K,
\* encrypt(P, K) ends without an error and decrypt(encrypt(P, K), K) is not
\* P.
C9_MultiByteLimitation ==
  /\ ( /\ pc = "done"
       /\ call.op = "encrypt"
       /\ WellFormedKey(call.engine, call.key)
       /\ ~SingleByte(call.text) )
     => result.kind = "value"
  /\ ( /\ pc = "done"
       /\ call.op = "decrypt"
       /\ origin.kind = "encrypted"
       /\ ~SingleByte(origin.text) )
     => result # Returned(origin.text)

\* DES decrypt has returned something else than the plaintext "H" U+03C0.
C9_Witness ==
  /\ RoundTripDone("des")
  /\ origin.text = <<72, 960>>
  /\ result.kind = "value"
  /\ result.value # origin.text

(***************************************************************************)
(* C10                                                                     *)
(***************************************************************************)
\* C10: for every plaintext P and every non-empty key K, keys with a letter
\* twice and plaintexts whose length is not a multiple of the key length
\* included, columnar.decrypt(columnar.encrypt(P, K), K) returns P.
C10_ColumnarRoundTrip ==
  col.phase = "decrypted" => col.back = col.text

(***************************************************************************)
(* C11                                                                     *)
(***************************************************************************)
\* C11: for every plaintext P and every integer number of rails r >= 2, r
\* larger than the length of P included, railfence.decrypt(railfence.encrypt(
\* P, r), r) returns P, and during both operations the current rail index
\* stays within 0..r-1.
C11_RailFenceRoundTrip ==
  /\ rf.phase = "decrypted" => rf.back = rf.text
  /\ rf.phase \in {"placing", "counting", "reading"} =>
       rf.rail \in 0..(rf.numRails - 1)
  /\ rf.phase # "typeError"

(***************************************************************************)
(* C12                                                                     *)
(***************************************************************************)
\* desCore has returned on the block that desCore returned for origin.text,
\* under the same round keys in reverse order.
DesCoreBack ==
  /\ pc = "done"
  /\ call.op = "desCore"
  /\ origin.kind = "block"

\* C12: for every 64-bit block B and every sequence keys of 16 round keys of
\* 48 bits, produced by the key schedule or not, desCore(desCore(B, keys),
\* reverse(keys)) = B: decryption is the same transform with the round keys
\* in the order keys[15], ..., keys[0].
C12_DesCoreInverse ==
  DesCoreBack => result = Returned(origin.text)

\* The block 0123456789ABCDEF has come back under round keys that are not
\* all equal, through a different block.
C12_Witness ==
  /\ DesCoreBack
  /\ origin.text = hexToBinary(<< 48, 49, 50, 51, 52, 53, 54, 55, 56, 57, 65, 66, 67, 68, 69, 70 >>)
  /\ roundKeys[1] # roundKeys[16]
  /\ origin.value # origin.text
  /\ result = Returned(origin.text)

(***************************************************************************)
(* C13                                                                     *)
(***************************************************************************)
\* The other AES block transform has returned on what the first returned
\* for origin.text, under the same round keys.
AesBlockBack ==
  /\ pc = "done"
  /\ call.engine = "aes"
  /\ origin.kind = "block"
  /\ origin.engine = "aes"

\* C13: for every 16-byte block B of bytes 0..255 and every sequence of 11
\* round keys of 16 bytes, decryptBlock(encryptBlock(B, roundKeys),
\* roundKeys) = B and encryptBlock(decryptBlock(B, roundKeys), roundKeys) = B.
C13_AesBlockInverse ==
  AesBlockBack => result = Returned(origin.text)

\* encryptBlock has given back the block that decryptBlock had transformed.
C13_Witness ==
  /\ AesBlockBack
  /\ call.op = "encrypt"
  /\ origin.text = Prefix(BaseText, 16)
  /\ origin.value # origin.text
  /\ result = Returned(origin.text)

(***************************************************************************)
(* C14                                                                     *)
(***************************************************************************)
\* The rotation of round k (1..16): 1 in rounds 1, 2, 9 and 16, else 2.
RotationOf(k) == IF k \in {1, 2, 9, 16} THEN 1 ELSE 2

RECURSIVE RotationSum(_)
\* s_k: the rotations of rounds 1..k added up
RotationSum(k) == IF k = 0 THEN 0 ELSE RotationSum(k - 1) + RotationOf(k)

\* bits rotated left by n places
Rotl(bits, n) == [j \in 1..Len(bits) |-> bits[((j - 1 + n) % Len(bits)) + 1]]

\* The selection of bits by a table of positions counted from 1
Selection(bits, table) == [j \in 1..Len(table) |-> bits[table[j]]]

\* Subkey k (1..16) of a key given as 16 hex characters, in closed form
Subkey(key, k) ==
  LET chosen == Selection(hexToBinary(key), PC1)
      C0 == SubSeq(chosen, 1, 28)
      D0 == SubSeq(chosen, 29, 56)
  IN  Selection(Rotl(C0, RotationSum(k)) \o Rotl(D0, RotationSum(k)), PC2)

\* C14: for every 64-bit key generateKeys returns exactly 16 subkeys of 48
\* bits, subkey i (1..16) being the PC-2 selection of rotl(C0, s_i) followed
\* by rotl(D0, s_i), with C0 and D0 the 28-bit halves of the PC-1 selection
\* of the key and s_i the running sum of the rotations, which are 1 in
\* rounds 1, 2, 9 and 16 and 2 in the other rounds.
C14_KeySchedule ==
  /\ (call.op = "generateKeys" /\ pc = "keyRound") =>
       /\ Len(roundKeys) = round
       /\ \A k \in 1..Len(roundKeys) : roundKeys[k] = Subkey(call.key, k)
  /\ (call.op = "generateKeys" /\ pc = "done") =>
       /\ result.kind = "value"
       /\ Len(result.value) = 16
       /\ \A k \in 1..16 :
            /\ Len(result.value[k]) = 48
            /\ result.value[k] = Subkey(call.key, k)

\* generateKeys has returned the sixteen subkeys of "0123456789ABCDEF".
C14_Witness ==
  /\ call.op = "generateKeys"
  /\ pc = "done"
  /\ call.key = << 48, 49, 50, 51, 52, 53, 54, 55, 56, 57, 65, 66, 67, 68, 69, 70 >>
  /\ Len(result.value) = 16
  /\ result.value[16] = Subkey(call.key, 16)

(***************************************************************************)
(* C15                                                                     *)
(***************************************************************************)
\* Two keys of 16 hex characters differ at most in the bits 8, 16, ..., 64.
ParityTwins(a, b) ==
  \A j \in 1..64 : j % 8 # 0 => hexToBinary(a)[j] = hexToBinary(b)[j]

\* C15: two 64-bit DES keys that differ only in the bit positions 8, 16, 24,
\* 32, 40, 48, 56, 64 (from 1 at the most significant bit) yield the same 16
\* round keys, hence encrypt and decrypt return the same results under both
\* keys.
C15_ParityBitsIgnored ==
  /\ ( /\ pc = "done"
       /\ call.op = "generateKeys"
       /\ memo.kind = "keys"
       /\ ParityTwins(call.key, memo.key) )
     => result = Returned(memo.value)
  /\ ( /\ Done("des", "encrypt")
       /\ memo.kind = "remembered"
       /\ call.text = memo.text
       /\ ParityTwins(call.key, memo.key) )
     => result = Returned(memo.value)
  /\ ( /\ RoundTripDone("des")
       /\ SingleByte(origin.text)
       /\ ParityTwins(call.key, origin.key) )
     => result = Returned(origin.text)

\* generateKeys has returned, for the key with all eight parity bits
\* flipped, the round keys kept from "133457799BBCDFF1".
C15_Witness ==
  /\ pc = "done"
  /\ call.op = "generateKeys"
  /\ memo.kind = "keys"
  /\ memo.key = DesKeyA
  /\ call.key = DesKeyATwin
  /\ result = Returned(memo.value)

(***************************************************************************)
(* C16                                                                     *)
(***************************************************************************)
\* The table has 64 entries and names every position 1..64.
PermutationOf64(table) ==
  /\ Len(table) = 64
  /\ { table[k] : k \in 1..64 } = 1..64

\* The positions 1..64 in order: a string whose characters are all different.
Positions64 == [k \in 1..64 |-> k]

\* C16: the final permutation FP is the inverse of the initial permutation
\* IP: both tables are permutations of 1..64 and, for every 64-bit string x,
\* permute(permute(x, IP), FP) = x and permute(permute(x, FP), IP) = x.
C16_FinalInvertsInitial ==
  /\ PermutationOf64(IP)
  /\ PermutationOf64(FP)
  /\ permute(permute(Positions64, IP), FP) = Positions64
  /\ permute(permute(Positions64, FP), IP) = Positions64
  /\ probe.fn \in {"IP;FP", "FP;IP"} =>
       /\ Len(probe.mid) = 64
       /\ probe.out = probe.arg

\* The string with its single 1 at position 58, which IP moves to position
\* 1, has come back through FP.
C16_Witness ==
  /\ probe.fn = "IP;FP"
  /\ probe.arg = [j \in 1..64 |-> IF j = 58 THEN 1 ELSE 0]
  /\ probe.mid = [j \in 1..64 |-> IF j = 1 THEN 1 ELSE 0]
  /\ probe.out = probe.arg

(***************************************************************************)
(* C17                                                                     *)
(***************************************************************************)
\* Every position the table names lies inside an input of n characters.
TableInside(table, n) == \A k \in 1..Len(table) : table[k] \in 1..n

\* The block desCore is working on is eight bytes, each in 0..255.
ByteBlock ==
  LET blockBytes == Slice(data, i, i + 8)
  IN  /\ Len(blockBytes) = 8
      /\ \A k \in 1..8 : blockBytes[k] \in 0..255

\* The row and the column feistel reads in S-box g (0-based) of the xored bits
SBoxRow(xored, g) == BitsToInt(<< xored[6 * g + 1], xored[6 * g + 6] >>)
SBoxCol(xored, g) == BitsToInt(SubSeq(xored, 6 * g + 2, 6 * g + 5))

\* The widths inside generateKeys.
KeyWidths ==
  LET keyBinary == hexToBinary(call.key)
  IN  /\ Len(keyBinary) = 64
      /\ TableInside(PC1, Len(keyBinary))
      /\ Len(permute(keyBinary, PC1)) = 56
      /\ Len(sched.C) = 28
      /\ Len(sched.D) = 28
      /\ TableInside(PC2, Len(sched.C \o sched.D))
      /\ Len(roundKeys) = round
      /\ \A k \in 1..Len(roundKeys) : Len(roundKeys[k]) = 48

\* The widths inside one round of desCore, before round `round` (0-based).
RoundWidths ==
  LET expanded   == permute(work.R, E)
      xored      == xor(expanded, roundKeys[round + 1])
      sBoxOutput == Flatten([g \in 1..8 |-> SBoxOut(xored, g - 1)], 4)
  IN  /\ TableInside(E, Len(work.R))
      /\ Len(expanded) = 48
      /\ Len(xored) = 48
      /\ \A g \in 0..7 :
           /\ SBoxRow(xored, g) \in 0..3
           /\ SBoxCol(xored, g) \in 0..15
           /\ S_BOXES[g + 1][SBoxRow(xored, g) + 1][SBoxCol(xored, g) + 1] \in 0..15
      /\ Len(sBoxOutput) = 32
      /\ TableInside(P, Len(sBoxOutput))
      /\ Len(feistel(work.R, roundKeys[round + 1])) = 32

\* The widths inside desCore.
BlockWidths ==
  LET block == hexToBinary(bytesToHex(Slice(data, i, i + 8)))
  IN  /\ Len(block) = 64
      /\ TableInside(IP, Len(block))
      /\ Len(permute(block, IP)) = 64
      /\ Len(roundKeys) = 16
      /\ \A k \in 1..16 : Len(roundKeys[k]) = 48
      /\ Len(work.L) = 32
      /\ Len(work.R) = 32
      /\ round < 16 => RoundWidths
      /\ round = 16 =>
           /\ TableInside(FP, Len(work.R \o work.L))
           /\ Len(CoreOutput(work)) = 64

\* C17: for every key of 16 hexadecimal digits and every 8-byte block of
\* bytes 0..255 the strings keep their widths: 56 bits after PC-1, 28 in
\* each half C and D in every round, 48 in every subkey, 64 after IP, 32 in
\* each half L and R in every round, 48 after E, 32 after the S-boxes and
\* after P, 64 at the output; every position a table names is inside its
\* input; every S-box lookup reads row 0..3, column 0..15, value 0..15.
C17_FeistelWidths ==
  /\ Running("des", "keyRound") => KeyWidths
  /\ Running("des", "round") /\ ByteBlock => BlockWidths

\* des.encrypt under "133457799BBCDFF1" has run the sixteen rounds of a
\* block of bytes, and the output of desCore is 64 bits.
C17_Witness ==
  /\ Running("des", "round")
  /\ call.op = "encrypt"
  /\ call.key = DesKeyA
  /\ ByteBlock
  /\ round = 16
  /\ SBoxRow(xor(permute(work.L, E), roundKeys[16]), 0) \in 0..3
  /\ Len(CoreOutput(work)) = 64

(***************************************************************************)
(* C18                                                                     *)
(***************************************************************************)
\* Every byte of the state is in 0..255.
StateOfBytes(state) == \A c \in 1..4, r \in 1..4 : state[c][r] \in 0..255

\* C18: INV_S_BOX is the inverse of S_BOX: both tables have 256 entries in
\* 0..255, and INV_S_BOX[S_BOX[b]] = b and S_BOX[INV_S_BOX[b]] = b for
\* every byte b, so that invSubBytes undoes subBytes and subBytes undoes
\* invSubBytes.
C18_InverseSBox ==
  /\ Len(S_BOX) = 256
  /\ Len(INV_S_BOX) = 256
  /\ \A b \in 0..255 :
       /\ S_BOX[b + 1] \in 0..255
       /\ INV_S_BOX[b + 1] \in 0..255
       /\ INV_S_BOX[S_BOX[b + 1] + 1] = b
       /\ S_BOX[INV_S_BOX[b + 1] + 1] = b
  /\ probe.fn \in {"subBytes;invSubBytes", "invSubBytes;subBytes"} =>
       /\ StateOfBytes(probe.mid)
       /\ probe.out = probe.arg

\* The byte 0x53 has gone through subBytes to 0xED and back.
C18_Witness ==
  /\ probe.fn = "subBytes;invSubBytes"
  /\ probe.arg[1][1] = 83
  /\ probe.mid[1][1] = 237
  /\ probe.out = probe.arg

(***************************************************************************)
(* C19                                                                     *)
(***************************************************************************)
\* The polynomial over GF(2) that the bits of n spell: its set of exponents.
Poly(n) == { k \in 0..14 : (n \div (2 ^ k)) % 2 = 1 }

\* The product of two polynomials of degree below 8 over GF(2).
PolyProduct(p, q) ==
  { k \in 0..14 : Cardinality({ j \in p : (k - j) \in q }) % 2 = 1 }

RECURSIVE PolyMod(_)
\* The remainder modulo x^8 + x^4 + x^3 + x + 1 (0x11B).
PolyMod(p) ==
  IF \A k \in p : k < 8 THEN p
  ELSE LET d       == CHOOSE k \in p : \A j \in p : j <= k
           shifted == { d - 8, d - 7, d - 5, d - 4, d }
       IN  PolyMod((p \ shifted) \cup (shifted \ p))

\* The number whose bits spell a polynomial of degree below 8.
PolyValue(p) ==
  LET bit(k) == IF k \in p THEN 2 ^ k ELSE 0
  IN  bit(0) + bit(1) + bit(2) + bit(3) + bit(4) + bit(5) + bit(6) + bit(7)

\* C19: for all a and b in 0..255, gmul(a, b) is the product of the
\* polynomials a and b over GF(2) reduced modulo 0x11B and is in 0..255,
\* although xtime does not mask its result to 8 bits; so every byte of the
\* state after mixColumns and after invMixColumns is in 0..255.
C19_GmulIsFieldProduct ==
  /\ probe.fn = "gmul" =>
       /\ probe.out[1] = PolyValue(PolyMod(PolyProduct(Poly(probe.arg[1]), Poly(probe.arg[2]))))
       /\ probe.out[1] \in 0..255
  /\ probe.fn \in {"mixColumns;invMixColumns", "invMixColumns;mixColumns"} =>
       /\ StateOfBytes(probe.mid)
       /\ StateOfBytes(probe.out)

\* gmul(0x80, 3): xtime(0x80) is 0x11B, above 255, and the product is 0x9B.
C19_Witness ==
  /\ probe.fn = "gmul"
  /\ probe.arg = << 128, 3 >>
  /\ probe.mid[1] > 255
  /\ probe.out = << 155 >>

(***************************************************************************)
(* C20                                                                     *)
(***************************************************************************)
\* C20: invMixColumns(mixColumns(state)) = state and
\* mixColumns(invMixColumns(state)) = state for every 4x4 state of bytes.
C20_MixColumnsInverse ==
  probe.fn \in {"mixColumns;invMixColumns", "invMixColumns;mixColumns"}
    /\ StateOfBytes(probe.arg)
    => probe.out = probe.arg

\* The column db 13 53 45 has gone through mixColumns to 8e 4d a1 bc and back.
C20_Witness ==
  /\ probe.fn = "mixColumns;invMixColumns"
  /\ probe.arg[1] = << 219, 19, 83, 69 >>
  /\ probe.mid[1] = << 142, 77, 161, 188 >>
  /\ probe.out = probe.arg

(***************************************************************************)
(* C21                                                                     *)
(***************************************************************************)
\* The steps of one main round of encryptBlock and of decryptBlock
EncryptRound(r) ==
  << << "subBytes", r >>, << "shiftRows", r >>, << "mixColumns", r >>, << "addRoundKey", r >> >>
DecryptRound(r) ==
  << << "invShiftRows", r >>, << "invSubBytes", r >>, << "addRoundKey", r >>,
     << "invMixColumns", r >> >>

\* AddRoundKey(keys[0]); rounds 1..9; SubBytes, ShiftRows, AddRoundKey(keys[10])
EncryptOrder ==
  << << "addRoundKey", 0 >> >>
    \o Flatten([r \in 1..9 |-> EncryptRound(r)], 4)
    \o << << "subBytes", 10 >>, << "shiftRows", 10 >>, << "addRoundKey", 10 >> >>

\* AddRoundKey(keys[10]); rounds 9..1; InvShiftRows, InvSubBytes, AddRoundKey(keys[0])
DecryptOrder ==
  << << "addRoundKey", 10 >> >>
    \o Flatten([r \in 1..9 |-> DecryptRound(10 - r)], 4)
    \o << << "invShiftRows", 0 >>, << "invSubBytes", 0 >>, << "addRoundKey", 0 >> >>

\* How many of the steps are the given one
Times(steps, step) == Cardinality({ k \in 1..Len(steps) : steps[k] = step })

\* The positions in the block transforms
BlockPositions ==
  { "addRoundKey", "subBytes", "shiftRows", "mixColumns", "invShiftRows", "invSubBytes",
    "invMixColumns", "store" }

\* C21: encryptBlock applies AddRoundKey(keys[0]), then in rounds 1..9
\* SubBytes, ShiftRows, MixColumns, AddRoundKey(keys[round]), then SubBytes,
\* ShiftRows, AddRoundKey(keys[10]); decryptBlock applies
\* AddRoundKey(keys[10]), then in rounds 9..1 InvShiftRows, InvSubBytes,
\* AddRoundKey(keys[round]), InvMixColumns, then InvShiftRows, InvSubBytes,
\* AddRoundKey(keys[0]).  Each of the 11 round keys is used exactly once and
\* (Inv)MixColumns is applied exactly 9 times, never in the round of keys[10]
\* on encryption or of keys[0] on decryption.
C21_RoundOrdering ==
  call.engine = "aes" /\ pc \in BlockPositions =>
    LET order == IF call.op = "encrypt" THEN EncryptOrder ELSE DecryptOrder
        mix   == IF call.op = "encrypt" THEN "mixColumns" ELSE "invMixColumns"
        last  == IF call.op = "encrypt" THEN 10 ELSE 0
    IN  /\ Len(work.steps) <= Len(order)
        /\ work.steps = SubSeq(order, 1, Len(work.steps))
        /\ pc = "store" =>
             /\ work.steps = order
             /\ \A k \in 0..10 : Times(work.steps, << "addRoundKey", k >>) = 1
             /\ Cardinality({ k \in 1..Len(work.steps) : work.steps[k][1] = mix }) = 9
             /\ Times(work.steps, << mix, last >>) = 0

\* encryptBlock has applied its forty steps to a block.
C21_Witness ==
  /\ Running("aes", "store")
  /\ call.op = "encrypt"
  /\ Len(work.steps) = 40
  /\ work.steps[38] = << "subBytes", 10 >>
  /\ work.steps[40] = << "addRoundKey", 10 >>

\* decryptBlock has applied its forty steps to a block.
C21_WitnessDecrypt ==
  /\ Running("aes", "store")
  /\ call.op = "decrypt"
  /\ Len(work.steps) = 40
  /\ work.steps[1] = << "addRoundKey", 10 >>
  /\ work.steps[40] = << "addRoundKey", 0 >>

(***************************************************************************)
(* C22                                                                     *)
(***************************************************************************)
\* Byte k (0-based) of a key written in hexadecimal
KeyByte(key, k) == 16 * HexVal(key[2 * k + 1]) + HexVal(key[2 * k + 2])

\* The word w[n - 1] rotated left by one byte, passed through S_BOX, its
\* first byte XORed with RCON[n / 4]
Scrambled(word, n) ==
  << BitXor(S_BOX[word[2] + 1], RCON[(n \div 4) + 1]),
     S_BOX[word[3] + 1], S_BOX[word[4] + 1], S_BOX[word[1] + 1] >>

\* Word n (0-based, from 4) of the words w follows the recurrence.
WordFollows(w, n) ==
  LET t == IF n % 4 = 0 THEN Scrambled(w[n], n) ELSE w[n]
  IN  /\ n % 4 = 0 => (n \div 4) \in 1..10
      /\ Len(w[n + 1]) = 4
      /\ \A j \in 1..4 : w[n + 1][j] = BitXor(w[n - 3][j], t[j])

\* C22: for every key of 32 hexadecimal characters keyExpansion returns 11
\* round keys of 16 bytes, each byte in 0..255; round key 0 is the 16 key
\* bytes; w[i] = w[i-4] XOR w[i-1] when i mod 4 # 0 and w[i] = w[i-4] XOR t
\* when i mod 4 = 0, with t the word w[i-1] rotated left by one byte, passed
\* through S_BOX, its first byte XORed with RCON[i/4] (index in 1..10);
\* round key r is w[4r], w[4r+1], w[4r+2], w[4r+3] concatenated.
C22_KeyExpansion ==
  /\ Running("aes", "keyWord") /\ Len(call.key) = 32 =>
       /\ Len(sched.w) = round
       /\ \A k \in 0..3 : sched.w[k + 1] = [j \in 1..4 |-> KeyByte(call.key, 4 * k + j - 1)]
       /\ \A k \in 4..(Len(sched.w) - 1) : WordFollows(sched.w, k)
  /\ call.engine = "aes" /\ call.op = "keyExpansion" /\ pc = "done" =>
       /\ result.kind = "value"
       /\ Len(sched.w) = 44
       /\ Len(result.value) = 11
       /\ \A r \in 0..10 :
            /\ Len(result.value[r + 1]) = 16
            /\ \A k \in 1..16 : result.value[r + 1][k] \in 0..255
            /\ result.value[r + 1] =
                 sched.w[4 * r + 1] \o sched.w[4 * r + 2] \o sched.w[4 * r + 3] \o sched.w[4 * r + 4]
       /\ \A k \in 0..15 : result.value[1][k + 1] = KeyByte(call.key, k)

\* keyExpansion("2b7e151628aed2a6abf7158809cf4f3c") has returned; its last
\* round key begins d0 14 f9 a8.
C22_Witness ==
  /\ call.engine = "aes"
  /\ call.op = "keyExpansion"
  /\ call.key = AesKeyA
  /\ pc = "done"
  /\ SubSeq(result.value[11], 1, 4) = << 208, 20, 249, 168 >>

(***************************************************************************)
(* C23                                                                     *)
(***************************************************************************)
\* C23: in both engines decrypt called with a malformed key and a malformed
\* ciphertext ends in the key-format error, never in the ciphertext-format
\* error; the key check is the first step of every encrypt and decrypt call,
\* and the ciphertext check, when reached, comes before the round keys are
\* derived and before any block is processed.
C23_ErrorPrecedence ==
  /\ ( /\ pc = "done"
       /\ call.op = "decrypt"
       /\ ~WellFormedKey(call.engine, call.key)
       /\ ~WellFormedCiphertext(call.engine, call.text) )
     => /\ result = Thrown(KeyMessage(call.engine))
        /\ result # Thrown(CiphertextMessage(call.engine))
  /\ pc = "keyCheck" => result = NoResult /\ NothingDerived /\ round = 0
  /\ pc \notin {"idle", "keyCheck", "done"} => WellFormedKey(call.engine, call.key)
  /\ pc = "ciphertextCheck" => call.op = "decrypt" /\ result = NoResult /\ NothingDerived
  /\ (call.op = "decrypt" /\ pc \notin {"idle", "keyCheck", "ciphertextCheck", "done"})
       => WellFormedCiphertext(call.engine, call.text)
  /\ (pc = "done" /\ result = Thrown(CiphertextMessage(call.engine)))
       => WellFormedKey(call.engine, call.key) /\ NothingDerived

\* DES decrypt of "zz" under the key "00" has ended in the key-format error.
C23_Witness ==
  /\ Done("des", "decrypt")
  /\ call.text = << 122, 122 >>
  /\ call.key = << 48, 48 >>
  /\ result = Thrown(DesKeyMessage)

(***************************************************************************)
(* C24                                                                     *)
(***************************************************************************)
\* The two strings differ at most in the case of the letters a-f.
SameHex(a, b) ==
  /\ Len(a) = Len(b)
  /\ \A k \in 1..Len(a) :
       \/ a[k] = b[k]
       \/ a[k] \in 97..102 /\ b[k] = a[k] - 32
       \/ a[k] \in 65..70 /\ b[k] = a[k] + 32

\* C24: in both engines, writing hexadecimal letters of the key or of the
\* ciphertext in the other case changes no result: encrypt(P, K) =
\* encrypt(P, K') and decrypt(C, K) = decrypt(C', K') whenever K' and C'
\* differ from K and C only in letter case; what encrypt returns is always
\* in upper case.
C24_HexCaseInsensitive ==
  /\ ( /\ pc = "done"
       /\ memo.kind = "encrypt"
       /\ call.op = "encrypt"
       /\ call.engine = memo.engine
       /\ call.text = memo.text
       /\ SameHex(call.key, memo.key) )
     => result = memo.value
  /\ ( /\ pc = "done"
       /\ memo.kind = "decrypt"
       /\ call.op = "decrypt"
       /\ call.engine = memo.engine
       /\ SameHex(call.text, memo.text)
       /\ SameHex(call.key, memo.key) )
     => result = memo.value
  /\ (pc = "done" /\ call.op = "encrypt" /\ result.kind = "value")
     => \A k \in 1..Len(result.value) : result.value[k] \in UpperHexDigits

\* DES decrypt has returned for a ciphertext and a key that differ in case,
\* and not only in case, from those of the kept call.
C24_Witness ==
  /\ Done("des", "decrypt")
  /\ memo.kind = "decrypt"
  /\ memo.engine = "des"
  /\ memo.text = CaseBlock
  /\ memo.key = DesKeyB
  /\ call.text = LowerCased(CaseBlock)
  /\ call.key = UpperCased(DesKeyB)
  /\ result.kind = "value"
  /\ result = memo.value

\* AES encrypt has returned the same for the key in the other case.
C24_WitnessEncrypt ==
  /\ Done("aes", "encrypt")
  /\ memo.kind = "encrypt"
  /\ memo.engine = "aes"
  /\ memo.key = AesKeyA
  /\ call.key = UpperCased(AesKeyA)
  /\ result.kind = "value"
  /\ result = memo.value

(***************************************************************************)
(* C25                                                                     *)
(***************************************************************************)
\* The positions of a call inside its block loop
BlockLoop == BlockPositions \cup {"block", "round"}

\* The round keys are those derived from the key of the call: for DES the
\* sixteen subkeys, in the order 16..1 for decrypt; for AES the words of the
\* key expansion in fours.
KeysAsDerived ==
  IF call.engine = "des"
  THEN /\ Len(roundKeys) = 16
       /\ \A k \in 1..16 :
            roundKeys[k] = Subkey(call.key, IF call.op = "decrypt" THEN 17 - k ELSE k)
  ELSE /\ Len(roundKeys) = 11
       /\ Len(sched.w) = 44
       /\ \A r \in 0..10 :
            roundKeys[r + 1] =
              sched.w[4 * r + 1] \o sched.w[4 * r + 2] \o sched.w[4 * r + 3] \o sched.w[4 * r + 4]

\* The bytes the block loop reads are those the call made of its input.
InputAsGiven ==
  data = IF call.op = "decrypt" THEN hexToBytes(call.text)
         ELSE IF call.engine = "des" THEN desPadBytes(stringToBytes(call.text))
         ELSE padBytes(stringToBytes(call.text), 16)

\* C25: in both engines the round keys are derived once per call, and
\* processing a block changes neither them nor the input bytes (the lookup
\* tables are constants), so that every block of a message meets the same
\* round keys in the same order: for DES decrypt the order keys[15]..keys[0]
\* at every block, the reversal having happened once.
C25_BlockProcessingFrame ==
  /\ [](pc \in BlockLoop => (KeysAsDerived /\ InputAsGiven))
  /\ [][(pc \in BlockLoop) => (<< roundKeys, sched, data >>' = << roundKeys, sched, data >>)]_vars

\* DES decrypt is in the rounds of its second block with the subkeys in the
\* order 16..1.
C25_Witness ==
  /\ Running("des", "round")
  /\ call.op = "decrypt"
  /\ i = 8
  /\ round = 3
  /\ Len(data) >= 16
  /\ roundKeys[1] = Subkey(call.key, 16)
  /\ roundKeys[1] # roundKeys[16]

(***************************************************************************)
(* C26                                                                     *)
(***************************************************************************)
\* C26: for each predefined curve the generator G satisfies the curve
\* equation modulo p and the declared n is the order of G: multiply(n, G) is
\* the point at infinity and multiply(k, G) is not, for 0 < k < n.
C26_CurveParameters ==
  /\ probe.fn = "isOnCurve" => probe.out[1] = TRUE
  /\ probe.fn = "multiply" =>
       LET curve == probe.arg[1]
           k     == probe.arg[2]
       IN  /\ k = curve.n => probe.out[1] = INFINITY
           /\ (0 < k /\ k < curve.n) => probe.out[1] # INFINITY

\* The same for the two curves other than CURVE_TINY.
C26_SmallAndSecpLike ==
  probe.arg # << >> /\ probe.arg[1] # CURVE_TINY => C26_CurveParameters

\* multiply(144, G) on CURVE_SMALL is the point at infinity.
C26_Witness ==
  /\ probe.fn = "multiply"
  /\ probe.arg = << CURVE_SMALL, 144 >>
  /\ probe.out[1] = INFINITY

\* multiply(7, G) on CURVE_TINY is the point (7, 2); multiply(13, G) is the
\* point at infinity.
C26_TinyOrder ==
  /\ multiply(CURVE_TINY, 7, CURVE_TINY.G) = [x |-> 7, y |-> 2]
  /\ multiply(CURVE_TINY, 13, CURVE_TINY.G) = INFINITY
  /\ \A k \in 1..12 : multiply(CURVE_TINY, k, CURVE_TINY.G) # INFINITY

(***************************************************************************)
(* C27                                                                     *)
(***************************************************************************)
\* "0123456789ABCDEF" and "85E813540F0AB405"
VectorBlockDes == << 48, 49, 50, 51, 52, 53, 54, 55, 56, 57, 65, 66, 67, 68, 69, 70 >>
VectorCipherDes == << 56, 53, 69, 56, 49, 51, 53, 52, 48, 70, 48, 65, 66, 52, 48, 53 >>

\* des.encrypt is running or has run on the example block under
\* "133457799BBCDFF1".
VectorCallDes ==
  /\ call.engine = "des"
  /\ call.op = "encrypt"
  /\ call.key = DesKeyA
  /\ call.text = VectorTextDes

\* C27: the DES engine computes standard DES: under the key
\* 133457799BBCDFF1 desCore, with the generated round keys, takes the block
\* 0123456789ABCDEF to 85E813540F0AB405, and encrypt of the string of the
\* character codes 01 23 45 67 89 AB CD EF returns 32 characters of which
\* the first 16 are 85E813540F0AB405.
C27_DesKnownAnswer ==
  VectorCallDes =>
    /\ (pc = "round" /\ i = 0) =>
         /\ bytesToHex(Slice(data, i, i + 8)) = VectorBlockDes
         /\ round = 16 => binaryToHex(CoreOutput(work)) = VectorCipherDes
    /\ pc = "done" =>
         /\ result.kind = "value"
         /\ Len(result.value) = 32
         /\ SubSeq(result.value, 1, 16) = VectorCipherDes

\* des.encrypt has returned for the example block.
C27_Witness ==
  /\ VectorCallDes
  /\ pc = "done"
  /\ result.kind = "value"
  /\ SubSeq(result.value, 1, 16) = VectorCipherDes

(***************************************************************************)
(* C28                                                                     *)
(***************************************************************************)
\* The bytes 39 25 84 1d 02 dc 09 fb dc 11 85 97 19 6a 0b 32
VectorCipherBytesAes ==
  << 57, 37, 132, 29, 2, 220, 9, 251, 220, 17, 133, 151, 25, 106, 11, 50 >>

\* "3925841D02DC09FBDC118597196A0B32"
VectorCipherAes ==
  << 51, 57, 50, 53, 56, 52, 49, 68, 48, 50, 68, 67, 48, 57, 70, 66,
     68, 67, 49, 49, 56, 53, 57, 55, 49, 57, 54, 65, 48, 66, 51, 50 >>

\* aes.encrypt is running or has run on the example block under
\* "2b7e151628aed2a6abf7158809cf4f3c".
VectorCallAes ==
  /\ call.engine = "aes"
  /\ call.op = "encrypt"
  /\ call.key = AesKeyA
  /\ call.text = VectorTextAes

\* C28: the AES engine computes standard AES-128: under the key
\* 2b7e151628aed2a6abf7158809cf4f3c encryptBlock takes the block
\* 3243f6a8885a308d313198a2e0370734 to 3925841d02dc09fbdc118597196a0b32, and
\* encrypt of the string of those character codes returns 64 characters of
\* which the first 32 are 3925841D02DC09FBDC118597196A0B32.
C28_AesKnownAnswer ==
  VectorCallAes =>
    /\ (pc = "store" /\ i = 0) =>
         /\ Slice(data, i, i + 16) = VectorTextAes
         /\ stateToBytes(work.state) = VectorCipherBytesAes
    /\ pc = "done" =>
         /\ result.kind = "value"
         /\ Len(result.value) = 64
         /\ SubSeq(result.value, 1, 32) = VectorCipherAes

\* aes.encrypt has returned for the example block.
C28_Witness ==
  /\ VectorCallAes
  /\ pc = "done"
  /\ result.kind = "value"
  /\ SubSeq(result.value, 1, 32) = VectorCipherAes

(***************************************************************************)
(* C29                                                                     *)
(***************************************************************************)
\* The bytes end in n bytes all equal to n, for an n in 1..blockSize.
EndsInPadding(bytes, blockSize) ==
  /\ Len(bytes) > 0
  /\ LET n == bytes[Len(bytes)]
     IN  /\ n \in 1..blockSize
         /\ n <= Len(bytes)
         /\ \A k \in (Len(bytes) - n + 1)..Len(bytes) : bytes[k] = n

\* encrypt has finished on what decrypt returned for origin.text under the
\* same key, origin.value being the bytes decrypt took origin.text to.
ReverseTripDone ==
  /\ pc = "done"
  /\ call.op = "encrypt"
  /\ origin.kind = "decrypted"

\* C29: in both engines, for a well-formed key K and a format-valid
\* ciphertext C whose decrypted bytes end in n bytes all equal to n for some
\* n in 1..block size, encrypt(decrypt(C, K), K) is C written in upper case.
C29_ReverseRoundTrip ==
  ( /\ ReverseTripDone
    /\ WellFormedKey(call.engine, call.key)
    /\ WellFormedCiphertext(call.engine, origin.text)
    /\ EndsInPadding(origin.value, BlockSize(call.engine)) )
  => result = Returned(UpperCased(origin.text))

\* DES has encrypted again what it decrypted from a lower-case ciphertext of
\* two blocks, the first with bytes above 127.
C29_Witness ==
  /\ ReverseTripDone
  /\ call.engine = "des"
  /\ call.text = VectorTextDes
  /\ Len(origin.text) = 32
  /\ origin.text # UpperCased(origin.text)
  /\ EndsInPadding(origin.value, 8)
  /\ result = Returned(UpperCased(origin.text))

\* AES has encrypted again what it decrypted from a ciphertext without its
\* last block; the decrypted bytes did not end in padding and the result is
\* not the ciphertext.
C29_OutsidePrecondition ==
  /\ ReverseTripDone
  /\ call.engine = "aes"
  /\ WellFormedCiphertext("aes", origin.text)
  /\ ~EndsInPadding(origin.value, 16)
  /\ result # Returned(UpperCased(origin.text))

(***************************************************************************)
(* C30                                                                     *)
(***************************************************************************)
\* C30: in both engines decrypt("", K) with a well-formed key K ends in the
\* ciphertext-format error and does not return the empty string, although
\* the length 0 is a multiple of the block; the shortest ciphertext decrypt
\* accepts is one full block, 16 hexadecimal characters for DES and 32 for
\* AES.
C30_EmptyCiphertextRejected ==
  /\ ( /\ call.op = "decrypt"
       /\ WellFormedKey(call.engine, call.key)
       /\ call.text = << >> )
     => /\ Len(call.text) % (2 * BlockSize(call.engine)) = 0
        /\ pc \in {"keyCheck", "ciphertextCheck", "done"}
        /\ pc = "done" => result = Thrown(CiphertextMessage(call.engine))
  /\ ( /\ call.op = "decrypt"
       /\ \/ pc \notin {"idle", "keyCheck", "ciphertextCheck", "done"}
          \/ pc = "done" /\ result.kind = "value" )
     => Len(call.text) >= 2 * BlockSize(call.engine)

\* AES decrypt of "" under a well-formed key has ended in the
\* ciphertext-format error.
C30_Witness ==
  /\ Done("aes", "decrypt")
  /\ call.text = << >>
  /\ WellFormedKey("aes", call.key)
  /\ result = Thrown(AesCiphertextMessage)

\* DES decrypt has returned for a ciphertext of 16 characters.
C30_WitnessOneBlock ==
  /\ Done("des", "decrypt")
  /\ Len(call.text) = 16
  /\ result.kind = "value"

=============================================================================
